---- MODULE Spec2Model ----
(***************************************************************************)
(* A model of the query iterators of google.cloud.ndb._datastore_query     *)
(* (single-query, post-filter and multi-query iterators), of the cache     *)
(* batching layers (remote_cache, _cache), of the contexts (context,       *)
(* client) and of retry_async (_retry).                                     *)
(***************************************************************************)
EXTENDS Integers, Sequences, FiniteSets, TLC

(***************************************************************************)
(* Bounds of the model.                                                     *)
(***************************************************************************)
MaxBatchLen == 2
MaxRpc == 2
MaxWindow == 1

\* the entities of the datastore, and the two disjuncts of an OR query
Entities == {1, 2, 3}
SubIds == {1, 2}

(***************************************************************************)
(* Python values.  An Optional[int] is the empty set (None) or {n}.        *)
(***************************************************************************)
None == {}
Some(n) == {n}
Truthy(x) == x # None /\ x # {0}
ValueOf(x) == CHOOSE n \in x : TRUE
Dec(x, n) == {v - n : v \in x}

NOT_FINISHED == "NOT_FINISHED"
NO_MORE_RESULTS == "NO_MORE_RESULTS"
MORE_RESULTS_AFTER_LIMIT == "MORE_RESULTS_AFTER_LIMIT"
MoreResultsType == {NOT_FINISHED, NO_MORE_RESULTS, MORE_RESULTS_AFTER_LIMIT}

\* the query iterators
VARIABLES query, its, srv, mi, obs
\* the remote cache coordinator of one context
VARIABLES remote_cache, batches, heap, futures, idlers, log

\* the in-process global cache, its clients and the clock
VARIABLES clock, cache, watch_keys, ret, since_watch, threads

\* one iterator whose has_next_async is called at any time, and its requests
VARIABLES iter, tasklets, wire
\* a call of count(), with both counting strategies run on its query
VARIABLES counted, brute, skipping
\* a cursor taken through its URL-safe form
VARIABLES cur
\* a batch of results received in a context with a cache
VARIABLES received
\* the contexts of one thread, the thread-local state, the use() scopes
\* entered and what the last call gave
VARIABLES contexts, _state, frames, seen
\* the generator of context ids and the threads that construct contexts
VARIABLES _context_ids, makers
\* a call of a function wrapped by retry_async
VARIABLES retry
\* a multi-query iterator of a query with a projection and an order
VARIABLES merged
\* a single-query iterator run to its end against a backend that honours
\* the offset and the limit of each request
VARIABLES walk
\* orchestrate(*tests): the main thread, the test threads with their
\* conductors, and the log of the turns the tests took
VARIABLES main, test_threads, test_calls
\* the thread-local current context with the contexts made, and the calls
\* of transaction_async
VARIABLES txn, transactions
\* a multi-query iterator over the iterators iterate() makes for its
\* disjuncts
VARIABLES merge

qvars == <<query, its, srv, mi, obs>>
cvars == <<remote_cache, batches, heap, futures, idlers, log>>
lvars == <<clock, cache, watch_keys, ret, since_watch, threads>>
tvars == <<iter, tasklets, wire>>
kvars == <<counted, brute, skipping>>
uvars == <<cur, received>>
nvars == <<contexts, _state, frames, seen>>
ivars == <<_context_ids, makers>>
ovars == <<main, test_threads, test_calls>>
txvars == <<txn, transactions>>
zvars == <<walk, ovars, txvars, merge>>
yvars == <<nvars, ivars, retry, merged, zvars>>
xvars == <<tvars, kvars, uvars, yvars>>
vars == <<qvars, cvars, lvars, xvars>>

\* the clients of the global cache, each with its own cache object, and the
\* key they write
Instances == {1, 2}
somekey == "somekey"

\* no iterator is called out of turn
TaskletsOff ==
    /\ iter = [pc |-> "off"]
    /\ tasklets = <<>>
    /\ wire = <<>>

\* nothing is counted
CountOff ==
    /\ counted = [strategy |-> "off"]
    /\ brute = [pc |-> "off"]
    /\ skipping = [pc |-> "off"]

\* no cursor is converted
CursorOff == cur = [pc |-> "off"]

\* no batch is received
FilterOff == received = [pc |-> "off"]

\* no context has been constructed
ContextOff ==
    /\ contexts = <<>>
    /\ _state = [pc |-> "off"]
    /\ frames = <<>>
    /\ seen = [op |-> "off"]

\* no context id is asked for
IdsOff ==
    /\ _context_ids = [pc |-> "off"]
    /\ makers = <<>>

\* nothing is retried
RetryOff == retry = [pc |-> "off"]

\* no projection is merged
ProjectionOff == merged = [pc |-> "off"]

\* no iterator is run to its end
WalkOff == walk = [pc |-> "off"]

\* none of the drivers of the iterators, transactions and test threads runs
\* nothing is orchestrated
OrchestrateOff ==
    /\ main = [pc |-> "off"]
    /\ test_threads = <<>>
    /\ test_calls = <<>>

\* no transaction is run
TransactionOff ==
    /\ txn = [pc |-> "off"]
    /\ transactions = <<>>

\* no disjuncts are merged
MergeOff == merge = [pc |-> "off"]

DriversOff ==
    /\ WalkOff
    /\ OrchestrateOff
    /\ TransactionOff
    /\ MergeOff

\* nothing of the runtime around the queries and caches is in use
RuntimeOff ==
    /\ ContextOff
    /\ IdsOff
    /\ RetryOff
    /\ ProjectionOff
    /\ DriversOff

\* a context in which no cache operation has been called
CacheOff ==
    /\ remote_cache = None
    /\ batches = <<>>
    /\ heap = <<>>
    /\ futures = <<>>
    /\ idlers = <<>>
    /\ log = <<>>

\* an empty global cache that nobody uses
LockOff ==
    /\ clock = [now |-> 1, ticks |-> 0]
    /\ cache = None
    /\ watch_keys = [i \in Instances |-> None]
    /\ ret = [inst |-> 0, op |-> "none", raised |-> FALSE, values |-> <<>>,
              relocked |-> FALSE, swapped |-> FALSE]
    /\ since_watch = [i \in Instances |-> "unwatched"]
    /\ threads = [t \in Instances |-> [pc |-> "start", error |-> "none", lock |-> None,
                                       todo |-> None]]

(***************************************************************************)
(* Query results.  A result is identified by its entity key; Val is the    *)
(* value of the order_by property (two entities may share it); the result  *)
(* cursor is the key itself.                                                *)
(***************************************************************************)
Val(e) == (e + 1) \div 2

\* the post-filter predicate, evaluated in memory on the entity
Predicate(e) == e % 2 = 1

\* _Result._compare: -1, 0 or 1 under the single order_by property; with an
\* empty order_by the source raises NotImplementedError (2 here).
Compare(order, a, b) ==
    IF order = "none" THEN 2
    ELSE LET direction == IF order = "desc" THEN -1 ELSE 1
         IN IF Val(a) < Val(b) THEN -direction
            ELSE IF Val(a) > Val(b) THEN direction
            ELSE 0

\* _Result.__lt__
Less(order, a, b) == Compare(order, a, b) = -1

(***************************************************************************)
(* _QueryIteratorImpl                                                       *)
(***************************************************************************)
\* _QueryIteratorImpl.__init__
NewIterator(offset, limit) ==
    [started |-> FALSE, batch |-> <<>>, index |-> 0, has_next_batch |-> FALSE,
     more_after_limit |-> FALSE, qoffset |-> offset, qlimit |-> limit,
     start_cursor |-> None, cursor_before |-> None, cursor_after |-> None,
     pc |-> "idle", ans |-> "none"]

\* _Result.check_cache(...) is not None: the key is not a cached tombstone
CheckCacheKeeps(e) == e \notin query.tombstones

\* faulty variant: the offset of the next request is not reduced
NextBatchSameOffset(it, resp) ==
    LET kept == IF query.full
                THEN SelectSeq(resp.results, CheckCacheKeeps)
                ELSE resp.results
        more == resp.more = NOT_FINISHED
        base == [it EXCEPT !.started = TRUE, !.index = 0, !.batch = kept,
                           !.has_next_batch = more,
                           !.more_after_limit = (resp.more = MORE_RESULTS_AFTER_LIMIT)]
    IN IF more
       THEN [base EXCEPT
               !.qlimit = IF it.qlimit # None THEN Dec(it.qlimit, Len(kept)) ELSE None,
               !.start_cursor = Some(resp.end_cursor)]
       ELSE base

\* _QueryIteratorImpl._next_batch, from the response on
NextBatch(it, resp) ==
    LET kept == IF query.full
                THEN SelectSeq(resp.results, CheckCacheKeeps)
                ELSE resp.results
        more == resp.more = NOT_FINISHED
        base == [it EXCEPT !.started = TRUE, !.index = 0, !.batch = kept,
                           !.has_next_batch = more,
                           !.more_after_limit = (resp.more = MORE_RESULTS_AFTER_LIMIT)]
    IN IF more
       THEN [base EXCEPT
               !.qlimit = IF it.qlimit # None THEN Dec(it.qlimit, Len(kept)) ELSE None,
               !.qoffset = IF Truthy(it.qoffset) THEN Dec(it.qoffset, resp.skipped)
                           ELSE it.qoffset,
               !.start_cursor = Some(resp.end_cursor)]
       ELSE base

Return(it, value) == [it EXCEPT !.pc = "idle", !.ans = IF value THEN "true" ELSE "false"]

\* has_next_async after the first batch: lines 342-352 up to the next yield
EnterLoop(it) ==
    IF it.has_next_batch THEN [it EXCEPT !.pc = "loop"] ELSE Return(it, FALSE)

\* faulty variant: a buffered result is not looked at before the next batch
AfterFirstRefetch(it) == EnterLoop(it)

AfterFirst(it) ==
    IF it.index < Len(it.batch) THEN Return(it, TRUE) ELSE EnterLoop(it)

\* faulty variant: an empty batch ends the iteration even when more are pending
AfterLoopNoSkip(it) ==
    IF Len(it.batch) > 0 THEN Return(it, it.index < Len(it.batch)) ELSE Return(it, FALSE)

\* has_next_async inside the while loop, after `yield self._next_batch()`
AfterLoop(it) ==
    IF Len(it.batch) > 0 THEN Return(it, it.index < Len(it.batch)) ELSE EnterLoop(it)

\* _QueryIteratorImpl.has_next_async up to its first yield
HasNextAsync(it) ==
    IF ~it.started THEN [it EXCEPT !.pc = "first", !.ans = "none"]
    ELSE AfterFirst(it)

\* the response of run_query arrives: _next_batch completes and has_next_async resumes
OnResponse(it, resp) ==
    IF it.pc = "first" THEN AfterFirst(NextBatch(it, resp)) ELSE AfterLoop(NextBatch(it, resp))

\* the errors a run_query call may fail with
RpcErrors == {"DeadlineExceeded", "ServiceUnavailable"}

\* faulty variant: a failed call is taken for the end of the results
FailsAsExhausted(it, error) == [it EXCEPT !.pc = "idle", !.ans = "false"]

\* the run_query call fails: the exception is thrown into _next_batch at its
\* yield and leaves it and has_next_async, neither of which catches it
Fails(it, error) == [it EXCEPT !.pc = "idle", !.ans = error]

\* _QueryIteratorImpl._peek
Peek(it) == it.batch[it.index + 1]

\* _QueryIteratorImpl.next when has_next() is True (raw)
IterNext(it) ==
    [it EXCEPT !.index = @ + 1, !.cursor_before = it.cursor_after,
               !.cursor_after = Some(Peek(it)), !.ans = "none"]

\* faulty variant: StopIteration leaves the cursors as they are
IterStopKeepsCursor(it) == [it EXCEPT !.ans = "none"]

\* _QueryIteratorImpl.next when has_next() is False
IterStop(it) == [it EXCEPT !.cursor_before = None, !.ans = "none"]

\* faulty variant: a batch still to be fetched is not looked at
ProbablyHasNextInBatch(it) == ~it.started \/ it.index < Len(it.batch)

\* _QueryIteratorImpl.probably_has_next
ProbablyHasNext(it) == ~it.started \/ it.has_next_batch \/ it.index < Len(it.batch)

\* raise exceptions.BadArgumentError(...)
BadArgumentError == [raised |-> TRUE, cursor |-> None]

\* cursor_before() and cursor_after() of _QueryIteratorImpl and, with the
\* same code, of _PostFilterQueryIteratorImpl
CursorBefore(it) ==
    IF it.cursor_before = None THEN BadArgumentError
    ELSE [raised |-> FALSE, cursor |-> it.cursor_before]
CursorAfter(it) ==
    IF it.cursor_after = None THEN BadArgumentError
    ELSE [raised |-> FALSE, cursor |-> it.cursor_after]

\* cursor_before() and cursor_after() of _MultiQueryIteratorImpl
MultiCursorBefore(it) == BadArgumentError
MultiCursorAfter(it) == BadArgumentError

(***************************************************************************)
(* The backend (run_query).  A response carries at most MaxBatchLen        *)
(* results not sent before on this query, in order_by order when the       *)
(* query is ordered, any more_results value, and skips at most the offset. *)
(***************************************************************************)
Last(s) == s[Len(s)]

InOrder(s) ==
    \A i \in 1..(Len(s) - 1) : Compare(query.order, s[i], s[i + 1]) # 1

BatchesOf(sent) ==
    {r \in UNION {[1..n -> Entities] : n \in 0..MaxBatchLen} :
        /\ \A i, j \in 1..Len(r) : i # j => r[i] # r[j]
        /\ \A i \in 1..Len(r) : \A j \in 1..Len(sent) : r[i] # sent[j]
        /\ query.order # "none" => InOrder(sent \o r)}

\* each of the two backends of a multi-query answers MaxRpc requests, the
\* backend of a plain or post-filter query one more
RpcCap == IF query.kind = "multi" THEN MaxRpc ELSE MaxRpc + 1

Responses(i) ==
    {[results |-> r, more |-> m, skipped |-> s, end_cursor |-> Len(srv[i].sent) + Len(r)] :
        r \in BatchesOf(srv[i].sent),
        m \in {x \in MoreResultsType :
                 /\ x = NOT_FINISHED => srv[i].rpcs + 1 < RpcCap
                 /\ x = MORE_RESULTS_AFTER_LIMIT => its[i].qlimit # None},
        s \in IF Truthy(its[i].qoffset) THEN 0..ValueOf(its[i].qoffset) ELSE {0}}

(***************************************************************************)
(* iterate(): the iterator is chosen by the shape of the filters.          *)
(***************************************************************************)
Offsets == {None} \cup {Some(n) : n \in 1..MaxWindow}
Limits == {None} \cup {Some(n) : n \in 0..MaxWindow}

Kinds == {"single", "post", "multi"}

\* entity 1 is cached as deleted in the context; the sub-queries of a
\* multi-query are taken with a result type that is not filtered
Queries ==
    {q \in [kind : Kinds, order : {"none", "asc", "desc"}, offset : Offsets,
             limit : Limits, full : BOOLEAN, tombstones : {{1}}] :
        q.kind = "multi" => ~q.full}

\* the sub-iterators the iterator drives
SubsOf(q) == IF q.kind = "multi" THEN <<1, 2>> ELSE <<1>>

\* _PostFilterQueryIteratorImpl.__init__ / _MultiQueryIteratorImpl.__init__
NewWrapper(q) ==
    [pc |-> "idle", ans |-> "none", next_result |-> None,
     result_sets |-> SubsOf(q), seen_keys |-> {},
     offset |-> q.offset, limit |-> q.limit,
     cursor_before |-> None, cursor_after |-> None]

\* the iterators that iterate() builds for the query
QStart ==
    /\ its = [i \in SubIds |->
                IF query.kind = "single" THEN NewIterator(query.offset, query.limit)
                ELSE NewIterator(None, None)]
    /\ srv = [i \in SubIds |-> [sent |-> <<>>, kept |-> <<>>, sizes |-> <<>>, rpcs |-> 0,
                              last_more |-> "none"]]
    /\ mi = NewWrapper(query)
    /\ obs = [yielded |-> <<>>, stream |-> <<>>, dups |-> {}, stopped |-> FALSE]

QInit ==
    /\ query \in Queries
    /\ QStart
    /\ CacheOff
    /\ LockOff
    /\ TaskletsOff
    /\ CountOff
    /\ CursorOff
    /\ FilterOff
    /\ RuntimeOff

\* no query is run
QueryOff ==
    /\ query = [kind |-> "single", order |-> "none", offset |-> None, limit |-> None,
                full |-> FALSE, tombstones |-> {1}]
    /\ QStart

Live == {mi.result_sets[n] : n \in 1..Len(mi.result_sets)}

\* poll the given sub-iterators: `yield [rs.has_next_async() for rs in result_sets]`
Poll(iters, live) == [i \in SubIds |-> IF i \in live THEN HasNextAsync(iters[i]) ELSE iters[i]]

(***************************************************************************)
(* Single-query iterator driven directly (a plain query).                  *)
(***************************************************************************)
\* has_next_async() on the _QueryIteratorImpl that iterate() returned
SingleHasNext ==
    /\ query.kind = "single"
    /\ its[1].pc = "idle"
    /\ its' = [its EXCEPT ![1] = HasNextAsync(its[1])]
    /\ UNCHANGED <<query, srv, mi, obs>>
    /\ UNCHANGED <<cvars, lvars, xvars>>

\* run_query answers sub-iterator i, which is waiting in _next_batch
Fetch(i) ==
    /\ its[i].pc \in {"first", "loop"}
    /\ \E resp \in Responses(i) :
         /\ its' = [its EXCEPT ![i] = OnResponse(its[i], resp)]
         /\ srv' = [srv EXCEPT ![i] = [sent |-> @.sent \o resp.results,
                                       kept |-> @.kept \o its'[i].batch,
                                       sizes |-> Append(@.sizes, Len(resp.results)),
                                       rpcs |-> @.rpcs + 1,
                                       last_more |-> resp.more]]
    /\ UNCHANGED <<query, mi, obs>>
    /\ UNCHANGED <<cvars, lvars, xvars>>

\* next() after has_next() returned True
SingleNext ==
    /\ query.kind = "single"
    /\ its[1].pc = "idle" /\ its[1].ans = "true"
    /\ obs' = [obs EXCEPT !.yielded = Append(@, Peek(its[1]))]
    /\ its' = [its EXCEPT ![1] = IterNext(its[1])]
    /\ UNCHANGED <<query, srv, mi>>
    /\ UNCHANGED <<cvars, lvars, xvars>>

\* next() after has_next() returned False: StopIteration
SingleStop ==
    /\ query.kind = "single"
    /\ its[1].pc = "idle" /\ its[1].ans = "false"
    /\ ~obs.stopped
    /\ obs' = [obs EXCEPT !.stopped = TRUE]
    /\ its' = [its EXCEPT ![1] = [IterStop(its[1]) EXCEPT !.ans = "false"]]
    /\ UNCHANGED <<query, srv, mi>>
    /\ UNCHANGED <<cvars, lvars, xvars>>

(***************************************************************************)
(* _PostFilterQueryIteratorImpl                                             *)
(***************************************************************************)
\* faulty variant: a result that is yielded does not use up the limit
WindowLimitNotCounted(w, result) ==
    IF Truthy(w.offset)
    THEN [w EXCEPT !.offset = Dec(@, 1)]
    ELSE [w EXCEPT !.next_result = Some(result), !.pc = "idle", !.ans = "true"]

\* offset and limit accounting (lines 527-536 and 693-702, the same code):
\* the wrapper after a result that counts has been drawn
Window(w, result) ==
    IF Truthy(w.offset)
    THEN [w EXCEPT !.offset = Dec(@, 1)]
    ELSE [w EXCEPT !.limit = IF Truthy(@) THEN Dec(@, 1) ELSE @,
                   !.next_result = Some(result),
                   !.pc = "idle", !.ans = "true"]

\* has_next_async up to the first yield
PostHasNext ==
    /\ query.kind = "post"
    /\ mi.pc = "idle"
    /\ IF mi.next_result # None
       THEN mi' = [mi EXCEPT !.ans = "true"] /\ UNCHANGED its
       ELSE IF mi.limit = Some(0)
       THEN mi' = [mi EXCEPT !.ans = "false"] /\ UNCHANGED its
       ELSE /\ mi' = [mi EXCEPT !.pc = "wait", !.ans = "none"]
            /\ its' = [its EXCEPT ![1] = HasNextAsync(its[1])]
    /\ UNCHANGED <<query, srv, obs>>
    /\ UNCHANGED <<cvars, lvars, xvars>>

\* one pass of the while loop, from the answer of the raw iterator on
PostStep ==
    /\ query.kind = "post"
    /\ mi.pc = "wait" /\ its[1].pc = "idle"
    /\ IF its[1].ans \in RpcErrors
       THEN /\ mi' = [mi EXCEPT !.pc = "idle", !.ans = its[1].ans]
            /\ UNCHANGED <<its, obs>>
       ELSE IF its[1].ans = "false"
       THEN /\ mi' = [mi EXCEPT !.pc = "idle", !.ans = "false"]
            /\ UNCHANGED <<its, obs>>
       ELSE LET next_result == Peek(its[1])
                drawn == IterNext(its[1])
            IN IF ~Predicate(next_result)
               THEN /\ its' = [its EXCEPT ![1] = HasNextAsync(drawn)]
                    /\ UNCHANGED <<mi, obs>>
               ELSE /\ obs' = [obs EXCEPT !.stream = Append(@, next_result)]
                    /\ IF Truthy(mi.offset)
                       THEN /\ mi' = Window(mi, next_result)
                            /\ its' = [its EXCEPT ![1] = HasNextAsync(drawn)]
                       ELSE /\ mi' = [Window(mi, next_result) EXCEPT
                                        !.cursor_before = mi.cursor_after,
                                        !.cursor_after = Some(next_result)]
                            /\ its' = [its EXCEPT ![1] = drawn]
    /\ UNCHANGED <<query, srv>>
    /\ UNCHANGED <<cvars, lvars, xvars>>

(***************************************************************************)
(* _MultiQueryIteratorImpl                                                  *)
(***************************************************************************)
\* lines 671-676: the index of the minimum buffered head, scanning upwards;
\* 0 when `value < min_value` raised NotImplementedError
RECURSIVE MinScan(_, _, _, _)
MinScan(result_sets, i, min_index, min_value) ==
    IF i > Len(result_sets) THEN min_index
    ELSE LET value == Peek(its[result_sets[i]])
         IN IF Compare(query.order, value, min_value) = 2 THEN 0
            ELSE IF Less(query.order, value, min_value)
            THEN MinScan(result_sets, i + 1, i, value)
            ELSE MinScan(result_sets, i + 1, min_index, min_value)

\* faulty variant: the heads are compared whatever the order
SelectIndexAlwaysSorts(result_sets) ==
    MinScan(result_sets, 2, 1, Peek(its[result_sets[1]]))

\* faulty variant: the heads are not compared
SelectIndexUnsorted(result_sets) == 1

\* lines 670-683: the position in result_sets of the iterator to draw from
SelectIndex(result_sets) ==
    IF query.order # "none"
    THEN MinScan(result_sets, 2, 1, Peek(its[result_sets[1]]))
    ELSE 1

\* has_next_async up to the first yield
MultiHasNext ==
    /\ query.kind = "multi"
    /\ mi.pc = "idle"
    /\ IF mi.next_result # None
       THEN mi' = [mi EXCEPT !.ans = "true"] /\ UNCHANGED its
       ELSE IF mi.result_sets = <<>>
       THEN mi' = [mi EXCEPT !.ans = "false"] /\ UNCHANGED its
       ELSE IF mi.limit = Some(0)
       THEN mi' = [mi EXCEPT !.ans = "false"] /\ UNCHANGED its
       ELSE /\ mi' = [mi EXCEPT !.pc = "wait", !.ans = "none"]
            /\ its' = Poll(its, Live)
    /\ UNCHANGED <<query, srv, obs>>
    /\ UNCHANGED <<cvars, lvars, xvars>>

IsLive(i) == its[i].ans = "true"

\* faulty variant: no result is taken for a duplicate
IsDuplicateNever(seen_keys, hash_key) == FALSE

\* lines 686-687: the serialized key has been seen
IsDuplicate(seen_keys, hash_key) == hash_key \in seen_keys

\* one pass of the while loop, from the answers of all polled iterators on
MultiStep ==
    /\ query.kind = "multi"
    /\ mi.pc = "wait"
    /\ \A i \in Live : its[i].pc = "idle"
    /\ LET result_sets == SelectSeq(mi.result_sets, IsLive)
       IN IF \E i \in Live : its[i].ans \in RpcErrors
          THEN /\ \E i \in Live :
                    /\ its[i].ans \in RpcErrors
                    /\ mi' = [mi EXCEPT !.pc = "idle", !.ans = its[i].ans]
               /\ UNCHANGED <<its, obs>>
          ELSE IF result_sets = <<>>
          THEN /\ mi' = [mi EXCEPT !.result_sets = <<>>, !.pc = "idle", !.ans = "false"]
               /\ UNCHANGED <<its, obs>>
          ELSE IF SelectIndex(result_sets) = 0
          THEN /\ mi' = [mi EXCEPT !.result_sets = result_sets, !.pc = "idle",
                                   !.ans = "NotImplementedError"]
               /\ UNCHANGED <<its, obs>>
          ELSE LET from == result_sets[SelectIndex(result_sets)]
                   next_result == Peek(its[from])
                   drawn == [its EXCEPT ![from] = IterNext(its[from])]
                   live == {result_sets[n] : n \in 1..Len(result_sets)}
                   w == [mi EXCEPT !.result_sets = result_sets]
               IN IF IsDuplicate(mi.seen_keys, next_result)
                  THEN /\ mi' = w
                       /\ its' = Poll(drawn, live)
                       /\ obs' = [obs EXCEPT !.dups = @ \cup {next_result}]
                  ELSE /\ obs' = [obs EXCEPT !.stream = Append(@, next_result)]
                       /\ mi' = Window([w EXCEPT !.seen_keys = @ \cup {next_result}],
                                       next_result)
                       /\ its' = IF Truthy(mi.offset) THEN Poll(drawn, live) ELSE drawn
    /\ UNCHANGED <<query, srv>>
    /\ UNCHANGED <<cvars, lvars, xvars>>

\* next() of a post-filter or multi-query iterator after has_next() returned True
WrapperNext ==
    /\ query.kind \in {"post", "multi"}
    /\ mi.pc = "idle" /\ mi.ans = "true"
    /\ obs' = [obs EXCEPT !.yielded = Append(@, ValueOf(mi.next_result))]
    /\ mi' = [mi EXCEPT !.next_result = None, !.ans = "none"]
    /\ UNCHANGED <<query, its, srv>>
    /\ UNCHANGED <<cvars, lvars, xvars>>

\* next() after has_next() returned False: StopIteration
WrapperStop ==
    /\ query.kind \in {"post", "multi"}
    /\ mi.pc = "idle" /\ mi.ans = "false"
    /\ ~obs.stopped
    /\ obs' = [obs EXCEPT !.stopped = TRUE]
    /\ UNCHANGED <<query, its, srv, mi>>
    /\ UNCHANGED <<cvars, lvars, xvars>>

QNext ==
    \/ SingleHasNext
    \/ \E i \in SubIds : Fetch(i)
    \/ SingleNext
    \/ SingleStop
    \/ PostHasNext
    \/ PostStep
    \/ MultiHasNext
    \/ MultiStep
    \/ WrapperNext
    \/ WrapperStop

SpecQuery == QInit /\ [][QNext]_vars

(***************************************************************************)
(* The same iterators against a backend whose run_query calls may fail.    *)
(***************************************************************************)
FailInit ==
    /\ query \in {q \in Queries : q.offset = None /\ q.limit = None /\ ~q.full
                                   /\ q.order # "desc"}
    /\ QStart
    /\ CacheOff
    /\ LockOff
    /\ TaskletsOff
    /\ CountOff
    /\ CursorOff
    /\ FilterOff
    /\ RuntimeOff

\* the run_query call of sub-iterator i fails
FetchFails(i) ==
    /\ its[i].pc \in {"first", "loop"}
    /\ srv[i].rpcs < RpcCap
    /\ \E error \in RpcErrors :
         /\ its' = [its EXCEPT ![i] = Fails(its[i], error)]
         /\ srv' = [srv EXCEPT ![i].rpcs = @ + 1, ![i].last_more = error]
    /\ UNCHANGED <<query, mi, obs>>
    /\ UNCHANGED <<cvars, lvars, xvars>>

FailNext ==
    \/ SingleHasNext
    \/ \E i \in SubIds : Fetch(i)
    \/ \E i \in SubIds : FetchFails(i)
    \/ SingleNext
    \/ SingleStop
    \/ PostHasNext
    \/ PostStep
    \/ MultiHasNext
    \/ MultiStep
    \/ WrapperNext
    \/ WrapperStop

SpecFailure == FailInit /\ [][FailNext]_vars

\* the sub-iterators the wrapper waits for whose has_next_async has failed
Failed == {i \in Live : its[i].ans \in RpcErrors}

\* the failed call of a single-query iterator fails its has_next_async()
SingleFails ==
    \A i \in SubIds :
       (srv'[i].rpcs = srv[i].rpcs + 1 /\ srv'[i].last_more \in RpcErrors) =>
          /\ its'[i].pc = "idle"
          /\ its'[i].ans = srv'[i].last_more
          /\ its'[i].batch = its[i].batch
          /\ its'[i].index = its[i].index

\* has_next_async() of a wrapper that waited for a failed iterator fails
WrapperFails ==
    (query.kind \in {"post", "multi"} /\ mi.pc = "wait" /\ mi'.pc = "idle" /\ Failed # {}) =>
       /\ mi'.ans \in {its[i].ans : i \in Failed}
       /\ mi'.next_result = None
       /\ obs' = obs

\* C33: when the run_query call of a single-query iterator fails, its
\* has_next_async() fails with that error, and has_next_async() of the
\* post-filter or multi-query iterator that waits for it fails with the
\* same error: the answer is neither False nor True, no result is taken and
\* nothing is yielded.
C33_FailureSurfaces == [][SingleFails /\ WrapperFails]_vars

\* the second sub-iterator of a multi-query failed while the first had a
\* result, and has_next_async of the multi-query iterator failed with it
C33_Witness ==
    /\ query.kind = "multi"
    /\ mi.pc = "idle" /\ mi.ans = "DeadlineExceeded"
    /\ its[1].ans = "true"
    /\ its[2].ans = "DeadlineExceeded" /\ srv[2].last_more = "DeadlineExceeded"

\* the second batch of the iterator under a post-filter failed
C33_WitnessPost ==
    /\ query.kind = "post"
    /\ mi.pc = "idle" /\ mi.ans = "ServiceUnavailable"
    /\ its[1].started
    /\ srv[1].last_more = "ServiceUnavailable"

\* has_next_async of a plain iterator failed
C33_WitnessSingle ==
    /\ query.kind = "single"
    /\ its[1].pc = "idle" /\ its[1].ans = "ServiceUnavailable"
    /\ srv[1].last_more = "ServiceUnavailable"

(***************************************************************************)
(* Properties of the iterators.                                             *)
(***************************************************************************)
Range(s) == {s[n] : n \in 1..Len(s)}
NoRepeats(s) == \A m, n \in 1..Len(s) : m # n => s[m] # s[n]
Exhausted == query.kind \in {"post", "multi"} /\ mi.pc = "idle" /\ mi.ans = "false"
OrZero(x) == IF x = None THEN 0 ELSE ValueOf(x)
Drop(s, n) == SubSeq(s, n + 1, Len(s))
Min(a, b) == IF a < b THEN a ELSE b
Max(a, b) == IF a > b THEN a ELSE b

\* C1: a single-query iterator answers False to has_next_async only after a
\* batch whose more_results is not NOT_FINISHED has been received and every
\* result of every batch received has been consumed; a plain query has then
\* yielded all of them, in order (so [], [], [e1, e2] yields e1, e2).
C1_NoPrematureExhaustion ==
    /\ \A i \in SubIds :
         (its[i].pc = "idle" /\ its[i].ans = "false") =>
            /\ srv[i].rpcs >= 1
            /\ srv[i].last_more # NOT_FINISHED
            /\ ~its[i].has_next_batch
            /\ its[i].index = Len(its[i].batch)
    /\ (query.kind = "single" /\ its[1].pc = "idle" /\ its[1].ans = "false") =>
            obs.yielded = srv[1].kept
    /\ \A i \in SubIds :
         (its[i].pc = "idle" /\ its[i].ans = "true") => its[i].index < Len(its[i].batch)

\* two empty NOT_FINISHED batches, then [e1, e2], both yielded, then exhaustion
C1_Witness ==
    /\ query.kind = "single"
    /\ srv[1].sizes = <<0, 0, 2>>
    /\ Len(obs.yielded) = 2 /\ obs.yielded = srv[1].sent
    /\ its[1].pc = "idle" /\ its[1].ans = "false"

\* the merge of two sorted sequences that takes the head of the second only
\* when it is strictly less than the head of the first
RECURSIVE SortedMerge(_, _, _)
SortedMerge(order, s, t) ==
    IF s = <<>> THEN t
    ELSE IF t = <<>> THEN s
    ELSE IF Compare(order, Head(t), Head(s)) = -1
         THEN <<Head(t)>> \o SortedMerge(order, s, Tail(t))
         ELSE <<Head(s)>> \o SortedMerge(order, Tail(s), t)

\* C2: an ordered multi-query without offset and limit over sub-iterators with
\* disjoint identities has yielded, when it reports exhaustion, exactly the
\* sorted merge of what the sub-iterators delivered: each result once, in
\* comparator order, the lower-index sub-iterator first among equal heads.
C2_OrderedMerge ==
    (/\ Exhausted /\ query.kind = "multi" /\ query.order # "none"
     /\ query.offset = None /\ query.limit = None
     /\ Range(srv[1].kept) \cap Range(srv[2].kept) = {}) =>
        /\ obs.yielded = SortedMerge(query.order, srv[1].kept, srv[2].kept)
        /\ \A n \in 1..(Len(obs.yielded) - 1) :
              Compare(query.order, obs.yielded[n], obs.yielded[n + 1]) # 1

\* both sub-iterators deliver, with disjoint identities and equal heads
C2_Witness ==
    /\ Exhausted /\ query.kind = "multi" /\ query.order # "none"
    /\ query.offset = None /\ query.limit = None
    /\ Range(srv[1].kept) \cap Range(srv[2].kept) = {}
    /\ Len(srv[1].kept) >= 1 /\ Len(srv[2].kept) >= 2
    /\ \E a \in Range(srv[1].kept), b \in Range(srv[2].kept) : Val(a) = Val(b)
    /\ Len(obs.yielded) = 3

Count(e, s) == Cardinality({n \in 1..Len(s) : s[n] = e})

\* C3 as stated: every identity that the multi-query drew from two
\* sub-iterators (so that one copy was discarded) has been yielded exactly
\* once when the multi-query reports exhaustion.
C3_YieldedExactlyOnce ==
    (Exhausted /\ query.kind = "multi") =>
        \A e \in obs.dups : Count(e, obs.yielded) = 1

C3_State ==
    query.kind = "multi" =>
        /\ NoRepeats(obs.yielded)
        /\ NoRepeats(obs.stream)
        /\ \A e \in obs.dups : /\ Count(e, obs.stream) = 1
                               /\ Count(e, obs.yielded) <= 1
                               /\ query.offset = None => Count(e, obs.yielded) = 1

C3_Step ==
    obs'.dups # obs.dups => (mi'.offset = mi.offset /\ mi'.limit = mi.limit)

\* C3 (amended): no two results yielded by a multi-query have the same key; an
\* identity drawn from two sub-iterators enters the merged stream exactly once
\* and is yielded at most once, exactly once when no offset is set (with an
\* offset it may be among the results skipped); discarding a duplicate
\* changes neither the remaining offset nor the remaining limit.
C3_Dedup == [](C3_State) /\ [][C3_Step]_vars

\* an identity drawn from both sub-iterators, discarded once and yielded once
\* among other results
C3_Witness ==
    /\ Exhausted /\ query.kind = "multi"
    /\ query.offset = None
    /\ \E e \in obs.dups : Count(e, obs.yielded) = 1
    /\ Len(obs.yielded) >= 2

\* the sub-iterators of the wrapper are exhausted
Drained == IF query.kind = "post" THEN its[1].ans = "false" ELSE mi.result_sets = <<>>

\* C4: when a post-filter or multi-query iterator with offset o and limit l
\* reports exhaustion, it has yielded elements o, o+1, ... of the filtered
\* (merged and de-duplicated) stream, in order: max(0, min(l, N - o)) of them,
\* max(0, N - o) when the limit is unset; the stream is that of the results
\* satisfying the predicate (of the distinct identities delivered).
C4_OffsetLimit ==
    Exhausted =>
        LET o == OrZero(query.offset)
            N == Len(obs.stream)
        IN /\ obs.yielded = Drop(obs.stream, o)
           /\ Len(obs.yielded) = IF query.limit = None THEN Max(0, N - o)
                                 ELSE Max(0, Min(ValueOf(query.limit), N - o))
           /\ ~Drained => (query.limit # None /\ Len(obs.yielded) = ValueOf(query.limit))
           /\ (Drained /\ query.kind = "post") =>
                  obs.stream = SelectSeq(srv[1].kept, Predicate)
           /\ (Drained /\ query.kind = "multi") =>
                  /\ NoRepeats(obs.stream)
                  /\ Range(obs.stream) = Range(srv[1].kept) \cup Range(srv[2].kept)

\* a multi-query with offset 1 and limit 1 that skipped one result, yielded the
\* second and stopped at the limit
C4_Witness ==
    /\ Exhausted /\ query.kind = "multi"
    /\ query.offset = Some(1) /\ query.limit = Some(1)
    /\ Len(obs.stream) = 2 /\ obs.yielded = <<obs.stream[2]>>
    /\ ~Drained

\* the same for a post-filter iterator, whose raw iterator also delivered a
\* result that fails the predicate
C4_WitnessPost ==
    /\ Exhausted /\ query.kind = "post"
    /\ query.offset = Some(1) /\ query.limit = Some(1)
    /\ Len(obs.stream) = 2 /\ obs.yielded = <<obs.stream[2]>>
    /\ \E e \in Range(srv[1].kept) : ~Predicate(e)

\* cursor_before() and cursor_after() of the iterator that iterate() returned
QueryCursorBefore ==
    IF query.kind = "single" THEN CursorBefore(its[1])
    ELSE IF query.kind = "post" THEN CursorBefore(mi)
    ELSE MultiCursorBefore(mi)
QueryCursorAfter ==
    IF query.kind = "single" THEN CursorAfter(its[1])
    ELSE IF query.kind = "post" THEN CursorAfter(mi)
    ELSE MultiCursorAfter(mi)

\* C15: asking for a cursor where there is none raises BadArgumentError: on
\* a multi-query iterator both cursor methods always raise; on a single-query
\* iterator cursor_after() raises until next() has returned a result, and
\* cursor_before() raises until next() has returned two results and again
\* once next() has raised StopIteration
C15_NoCursor ==
    /\ query.kind = "multi" =>
          QueryCursorBefore.raised /\ QueryCursorAfter.raised
    /\ query.kind = "single" =>
          /\ QueryCursorAfter.raised <=> Len(obs.yielded) = 0
          /\ QueryCursorBefore.raised <=> (Len(obs.yielded) < 2 \/ obs.stopped)

\* a single-query iterator returned two results, gave a cursor before the
\* last one, and was then exhausted
C15_Witness ==
    /\ query.kind = "single"
    /\ Len(obs.yielded) >= 2 /\ obs.stopped
    /\ QueryCursorBefore.raised /\ ~QueryCursorAfter.raised

C15_WitnessMulti ==
    /\ query.kind = "multi"
    /\ Len(obs.yielded) >= 2
    /\ QueryCursorAfter.raised

\* the cursors are those of the last result next() returned and of the one
\* returned before it
CursorsOfReturned ==
    /\ ~QueryCursorAfter.raised =>
          /\ Len(obs.yielded) >= 1
          /\ QueryCursorAfter.cursor = Some(Last(obs.yielded))
    /\ ~QueryCursorBefore.raised =>
          /\ Len(obs.yielded) >= 2
          /\ QueryCursorBefore.cursor = Some(obs.yielded[Len(obs.yielded) - 1])

\* C16: on single-query and post-filter iterators, a cursor that
\* cursor_after() returns is the cursor of the last result next() returned,
\* and a cursor that cursor_before() returns is the cursor of the result
\* returned just before that one, whatever the order of the has_next(),
\* next() and cursor calls; for the post-filter iterator only results that
\* satisfy the predicate and are past the offset count
C16_CursorsFollowNext == query.kind \in {"single", "post"} => CursorsOfReturned

\* the single-query iterator alone keeps to it
C16_SingleCursorsFollowNext == query.kind = "single" => CursorsOfReturned

\* probably_has_next() of the iterator that iterate() returned: lines 354-360,
\* 544-546 and 706-710
QueryProbablyHasNext ==
    IF query.kind = "single" THEN ProbablyHasNext(its[1])
    ELSE IF query.kind = "post" THEN mi.next_result # None \/ ProbablyHasNext(its[1])
    ELSE mi.next_result # None \/ \E i \in Live : ProbablyHasNext(its[i])

\* the answer of the last has_next() of the iterator, until next() is called
HasNextAnswer == IF query.kind = "single" THEN its[1].ans ELSE mi.ans

\* C17: probably_has_next() is never False in a state in which has_next()
\* would return True, for each kind of iterator and after any calls: where it
\* is False, has_next() has not answered True, and it stays False whatever
\* the iterator does next
C17_NoFalseNegative ==
    /\ [](~QueryProbablyHasNext => HasNextAnswer # "true")
    /\ [][~QueryProbablyHasNext => ~QueryProbablyHasNext']_vars

\* probably_has_next() is False after results were returned, and has_next()
\* has answered False
C17_Witness ==
    /\ ~QueryProbablyHasNext
    /\ HasNextAnswer = "false"
    /\ Len(obs.yielded) >= 1

\* the same for a multi-query iterator
C17_WitnessMulti ==
    /\ query.kind = "multi"
    /\ ~QueryProbablyHasNext
    /\ HasNextAnswer = "false"
    /\ Len(obs.yielded) >= 1

\* the result that has_next() buffered
Buffered == IF query.kind = "single" THEN Peek(its[1]) ELSE ValueOf(mi.next_result)

\* has_next() answered False, or is being asked again and every sub-iterator
\* it asks has answered False
SaidFalse ==
    \/ HasNextAnswer = "false"
    \/ /\ query.kind # "single"
       /\ mi.pc = "wait"
       /\ \A i \in Live : its[i].pc = "idle" /\ its[i].ans = "false"

\* from a True answer on, all that changes the iterator is a next() that
\* returns the buffered result, without a request and without StopIteration
C18_AfterTrue ==
    HasNextAnswer = "true" =>
       /\ obs'.yielded = Append(obs.yielded, Buffered)
       /\ obs'.stopped = obs.stopped
       /\ srv' = srv
       /\ \A i \in SubIds : its'[i].pc = "idle"

\* from a False answer on, no result is returned or consumed and no request
\* is sent, and the answer stays False
C18_AfterFalse ==
    SaidFalse =>
       /\ SaidFalse'
       /\ obs'.yielded = obs.yielded /\ obs'.stream = obs.stream
       /\ srv' = srv
       /\ \A i \in SubIds : its'[i].pc = "idle" /\ its'[i].index = its[i].index

\* C18: for every kind of iterator, after has_next() returned True the next
\* next() returns a result without a backend request and without
\* StopIteration, after False it raises StopIteration, and has_next() called
\* again without a next() in between gives the same answer and neither
\* consumes nor skips a result
C18_HasNextThenNext == [][C18_AfterTrue /\ C18_AfterFalse]_vars

\* next() returned results after True answers and then raised StopIteration
\* after a False answer
C18_Witness == obs.stopped /\ Len(obs.yielded) >= 2

C18_WitnessPost == query.kind = "post" /\ obs.stopped /\ Len(obs.yielded) >= 1

\* the results next() of sub-iterator i has given so far: what run_query
\* delivered to it, less what is still buffered in its batch
Drawn(i) ==
    SubSeq(srv[i].kept, 1, Len(srv[i].kept) - (Len(its[i].batch) - its[i].index))

\* a sequence without the later occurrences of each of its elements
RECURSIVE FirstsOf(_)
FirstsOf(s) ==
    IF s = <<>> THEN <<>>
    ELSE LET r == FirstsOf(SubSeq(s, 1, Len(s) - 1))
         IN IF \E n \in 1..Len(r) : r[n] = s[Len(s)] THEN r ELSE Append(r, s[Len(s)])

\* what next() has returned, and the result has_next_async holds for it
Delivered == obs.yielded \o (IF mi.next_result = None THEN <<>> ELSE <<ValueOf(mi.next_result)>>)

\* C32: with an empty order_by the multi-query iterator takes the results
\* of its first sub-iterator, then those of the second, leaving out the keys
\* already seen: nothing is taken from the second before the first is
\* exhausted, what it gives is that sequence after the offset, all of it
\* once the iteration has ended without a limit, and the comparator of
\* _Result, which raises NotImplementedError, is never called.
C32_Unsorted ==
    (query.kind = "multi" /\ query.order = "none") =>
      /\ mi.ans # "NotImplementedError"
      /\ obs.stream = FirstsOf(Drawn(1) \o Drawn(2))
      /\ Drawn(2) # <<>> =>
            /\ 1 \notin Live
            /\ Drawn(1) = srv[1].kept
            /\ ~its[1].has_next_batch
      /\ Delivered = SubSeq(obs.stream, OrZero(query.offset) + 1, Len(obs.stream))
      /\ (obs.stopped /\ query.limit = None) =>
            \A i \in SubIds : Drawn(i) = srv[i].kept /\ its[i].started /\ ~its[i].has_next_batch

\* both sub-iterators gave results, the second after the first, and a key
\* the first had given was left out
C32_Witness ==
    /\ query.kind = "multi" /\ query.order = "none"
    /\ obs.stopped
    /\ Len(Drawn(1)) >= 1
    /\ Len(Drawn(2)) >= 2
    /\ obs.dups # {}
    /\ Len(obs.yielded) >= 2

(***************************************************************************)
(* The remote cache coordinator (remote_cache.py).  Cache values are       *)
(* strings: "None", the booleans "True" and "False", the three encodings   *)
(* of the lock marker, "pb" for a serialized entity and "entity" for an    *)
(* entity.  A future is [state, result]; a batch object is [cls, todo],    *)
(* todo being the dict of the batch as the sequence of its items, each     *)
(* [key, waiters] with waiters the list of <<future, value>>.              *)
(***************************************************************************)
MaxCalls == 2

_LOCKED == "int:0"
_LOCKED_STR == "str:0"
_LOCKED_BYTES == "bytes:0"
_LOCK_TIME == 32
_PREFIX == "NDB9"

Keys == {1, 2}

\* RemoteCacheAdapter.cache_key, for a key without namespace
CacheKey(key) == <<_PREFIX, key>>

\* sorted() on cache keys of one prefix
KeyBefore(a, b) == a[2] < b[2]

\* option names, in the order of Python's string comparison
OptionNames == <<"expire", "namespace">>
NameRank(name) == CHOOSE n \in 1..Len(OptionNames) : OptionNames[n] = name
OptionBefore(a, b) == NameRank(a[1]) < NameRank(b[1])
NotNone(item) == item[2] # None

\* keyword arguments of the calls: dicts as sequences of <<name, value>>
NoOptions == <<>>
ExpireNone == << <<"expire", None>> >>
ExpireOne == << <<"expire", Some(1)>> >>
ExpireNamespace == << <<"expire", Some(1)>>, <<"namespace", Some(1)>> >>
NamespaceExpire == << <<"namespace", Some(1)>>, <<"expire", Some(1)>> >>
ExpireLock == << <<"expire", Some(_LOCK_TIME)>> >>

Ops == {"cache_get", "cache_set", "cache_set_locked", "cache_start_cas", "cache_cas",
        "cache_delete"}

\* the batch class each operation passes to _get_batch
BatchClass(op) ==
    CASE op = "cache_get" -> "_RemoteCacheGetBatch"
      [] op = "cache_set" -> "_RemoteCacheSetBatch"
      [] op = "cache_set_locked" -> "_RemoteCacheSetBatch"
      [] op = "cache_start_cas" -> "_RemoteCacheStartCasBatch"
      [] op = "cache_cas" -> "_RemoteCacheCasBatch"
      [] op = "cache_delete" -> "_RemoteCacheDeleteBatch"

\* subclasses of _RemoteCacheSetBatch; the others derive from _RemoteCacheGetBatch
SetLike(cls) == cls \in {"_RemoteCacheSetBatch", "_RemoteCacheCasBatch"}

\* faulty variant: a remote cache is assumed in every context
RemoteCacheAlwaysAvailable == TRUE

RemoteCacheAvailable == remote_cache # None

IsLockedValue(value) == value \in {_LOCKED, _LOCKED_STR, _LOCKED_BYTES, "False"}

\* Python truth of a cache value
TruthyValue(value) == value \notin {"None", "False", _LOCKED}

IsBool(value) == value \in {"True", "False"}

\* faulty variant: the options are taken as they were passed
OptionsKeyAsPassed(options) == options

\* lines 277-285: the sorted tuple of the options that are not None
OptionsKey(options) == SortSeq(SelectSeq(options, NotNone), OptionBefore)

\* the event loop: its queue of idle callbacks, one of which it calls and
\* removes at a time
AddIdle(queue, callback) == Append(queue, callback)
RemoveIdle(queue, n) == [m \in 1..Len(queue) - 1 |-> IF m < n THEN queue[m] ELSE queue[m + 1]]

Put(table, k, v) == [x \in DOMAIN table \cup {k} |-> IF x = k THEN v ELSE table[x]]
Pop(table, k) == [x \in DOMAIN table \ {k} |-> table[x]]

\* _get_batch: the batch of the class and options, created and scheduled
\* when the table has none
GetBatch(cls, options) ==
    LET slot == <<cls, OptionsKey(options)>>
    IN IF slot \in DOMAIN batches
       THEN [batch |-> batches[slot], created |-> FALSE, batches |-> batches,
             heap |-> heap, idlers |-> idlers]
       ELSE [batch |-> Len(heap) + 1, created |-> TRUE,
             batches |-> Put(batches, slot, Len(heap) + 1),
             heap |-> Append(heap, [cls |-> cls, todo |-> <<>>]),
             idlers |-> AddIdle(idlers, slot)]

\* cache_set_locked, lines 175-176: options['expire'] = _LOCK_TIME
SetExpire(options) ==
    IF \E n \in 1..Len(options) : options[n][1] = "expire"
    THEN [n \in 1..Len(options) |->
             IF options[n][1] = "expire" THEN <<"expire", Some(_LOCK_TIME)>> ELSE options[n]]
    ELSE Append(options, <<"expire", Some(_LOCK_TIME)>>)

\* the keyword arguments the add method of the class takes
AddAccepts(cls, options) ==
    \A n \in 1..Len(options) : SetLike(cls) /\ options[n][1] = "expire"

\* _RemoteCacheSetBatch.add, lines 430-433: the value as it is stored
TodoValue(cls, value) ==
    IF ~SetLike(cls) THEN "None"
    ELSE IF IsLockedValue(value) THEN value ELSE "pb"

\* todo.setdefault(todo_key, []).append(item)
TodoAdd(todo, todo_key, item) ==
    IF \E n \in 1..Len(todo) : todo[n].key = todo_key
    THEN [n \in 1..Len(todo) |->
             IF todo[n].key = todo_key
             THEN [todo[n] EXCEPT !.waiters = Append(@, item)] ELSE todo[n]]
    ELSE Append(todo, [key |-> todo_key, waiters |-> <<item>>])

NumCalls == Cardinality({n \in 1..Len(log) : log[n].type = "call"})

Call(op, key, options, batch, created, future) ==
    [type |-> "call", op |-> op, key |-> key, options |-> options,
     batch |-> batch, created |-> created, future |-> future]

\* cache_get, cache_set, cache_set_locked, cache_start_cas, cache_cas and
\* cache_delete.  batch 0 in the log: _get_batch was not called; future 0:
\* the call raised TypeError (add does not take the keyword) or
\* AttributeError (no adapter)
CacheCall(op, key, options) ==
    /\ NumCalls < MaxCalls
    /\ IF ~RemoteCacheAvailable
       THEN /\ futures' = Append(futures, [state |-> "done", result |-> "None"])
            /\ log' = Append(log, Call(op, key, options, 0, FALSE, Len(futures) + 1))
            /\ UNCHANGED <<batches, heap, idlers>>
       ELSE LET cls == BatchClass(op)
                value == IF op = "cache_set_locked" THEN _LOCKED ELSE "entity"
                opts == IF op = "cache_set_locked" THEN SetExpire(options) ELSE options
                got == GetBatch(cls, opts)
                future == Len(futures) + 1
                item == <<future, TodoValue(cls, value)>>
            IN /\ batches' = got.batches
               /\ idlers' = got.idlers
               /\ IF AddAccepts(cls, opts) /\ remote_cache # None
                  THEN /\ futures' = Append(futures, [state |-> "pending", result |-> "None"])
                       /\ heap' = [got.heap EXCEPT ![got.batch].todo =
                                      TodoAdd(@, CacheKey(key), item)]
                       /\ log' = Append(log, Call(op, key, opts, got.batch, got.created, future))
                  ELSE /\ heap' = got.heap
                       /\ log' = Append(log, Call(op, key, opts, got.batch, got.created, 0))
                       /\ UNCHANGED futures
    /\ UNCHANGED remote_cache
    /\ UNCHANGED <<qvars, lvars, xvars>>

\* what the adapter may answer for one key
Answers(cls) ==
    IF cls = "_RemoteCacheGetBatch" THEN {"None", "pb", _LOCKED_BYTES} ELSE {"True", "False"}

\* lines 365-371: the result a get-like batch gives for a value
Decode(value) ==
    IF TruthyValue(value) /\ ~IsLockedValue(value) /\ ~IsBool(value) THEN "entity" ELSE value

\* the argument of the backend call: the sorted keys (lines 358-362), or the
\* mapping in the order of the dict with the last value of each key (439-448)
LastOf(s) == s[Len(s)]

\* faulty variant: the mapping keeps the first value of each key
BackendArgFirstValue(batch) ==
    IF SetLike(batch.cls)
    THEN [n \in 1..Len(batch.todo) |-> <<batch.todo[n].key, batch.todo[n].waiters[1][2]>>]
    ELSE [n \in 1..Len(batch.todo) |-> <<SortSeq([m \in 1..Len(batch.todo) |-> batch.todo[m].key], KeyBefore)[n], "None">>]

BackendArg(batch) ==
    IF SetLike(batch.cls)
    THEN [n \in 1..Len(batch.todo) |-> <<batch.todo[n].key, LastOf(batch.todo[n].waiters)[2]>>]
    ELSE [n \in 1..Len(batch.todo) |-> <<SortSeq([m \in 1..Len(batch.todo) |-> batch.todo[m].key], KeyBefore)[n], "None">>]

\* _RemoteCacheSetBatch.execute, lines 404-414: adapter.cache_set_multi(mapping)
\* is called with the mapping alone, so that its expire keeps the default None;
\* the get-like batches pass keys and have no expire
ExecuteExpire(batch, options_key) == None

\* position of the key in the argument of the backend call
ArgIndex(arg, key) == CHOOSE n \in 1..Len(arg) : arg[n][1] = key

\* the futures of the batch, each with the key it waits for
WaitersOf(batch) ==
    UNION {{<<batch.todo[n].key, batch.todo[n].waiters[m][1]>> :
               m \in 1..Len(batch.todo[n].waiters)} : n \in 1..Len(batch.todo)}

\* faulty variant: only the first future of each key is completed
SetResultsFirstOnly(batch, arg, values, fs) ==
    [f \in 1..Len(fs) |->
        IF \E n \in 1..Len(batch.todo) : batch.todo[n].waiters[1][1] = f
        THEN LET key == (CHOOSE w \in WaitersOf(batch) : w[2] = f)[1]
                 value == values[ArgIndex(arg, key)]
             IN [state |-> "done",
                 result |-> IF SetLike(batch.cls) THEN value ELSE Decode(value)]
        ELSE fs[f]]

\* lines 363-373 and 449-452: every future of the batch gets the result of its key
SetResults(batch, arg, values, fs) ==
    [f \in 1..Len(fs) |->
        IF \E w \in WaitersOf(batch) : w[2] = f
        THEN LET key == (CHOOSE w \in WaitersOf(batch) : w[2] = f)[1]
                 value == values[ArgIndex(arg, key)]
             IN [state |-> "done",
                 result |-> IF SetLike(batch.cls) THEN value ELSE Decode(value)]
        ELSE fs[f]]

\* the event loop calls idle callback n: idle() of _get_batch pops the batch
\* and calls its idle_callback, which calls the adapter synchronously; the
\* adapter answers every key or raises
RunIdle(n) ==
    /\ n \in 1..Len(idlers)
    /\ LET slot == idlers[n]
           b == batches[slot]
           batch == heap[b]
           arg == BackendArg(batch)
       IN /\ batches' = Pop(batches, slot)
          /\ idlers' = RemoveIdle(idlers, n)
          /\ \/ \E values \in [1..Len(arg) -> Answers(batch.cls)] :
                  /\ futures' = SetResults(batch, arg, values, futures)
                  /\ log' = Append(log, [type |-> "idle", batch |-> b, arg |-> arg,
                                         expire |-> ExecuteExpire(batch, slot[2]),
                                         values |-> values, raised |-> FALSE])
             \/ /\ log' = Append(log, [type |-> "idle", batch |-> b, arg |-> arg,
                                       expire |-> ExecuteExpire(batch, slot[2]),
                                       values |-> <<>>, raised |-> TRUE])
                /\ UNCHANGED futures
    /\ UNCHANGED <<remote_cache, heap>>
    /\ UNCHANGED <<qvars, lvars, xvars>>

CInit ==
    /\ remote_cache \in {None, Some("adapter")}
    /\ batches = <<>>
    /\ heap = <<>>
    /\ futures = <<>>
    /\ idlers = <<>>
    /\ log = <<>>
    /\ QueryOff
    /\ LockOff
    /\ TaskletsOff
    /\ CountOff
    /\ CursorOff
    /\ FilterOff
    /\ RuntimeOff

Request(op, key, options) == [op |-> op, key |-> key, options |-> options]

\* the calls made: every operation, two keys for get and set, and for set the
\* keyword arguments that name the same batch in different ways and the
\* expire that puts an entity in the batch of cache_set_locked
Requests ==
    {Request(op, 1, NoOptions) : op \in Ops}
      \cup {Request("cache_get", 2, NoOptions), Request("cache_set", 2, ExpireOne),
            Request("cache_set", 1, ExpireNone),
            Request("cache_set", 1, ExpireNamespace),
            Request("cache_set", 1, NamespaceExpire),
            Request("cache_set", 1, ExpireLock)}

CNext ==
    \/ \E r \in Requests : CacheCall(r.op, r.key, r.options)
    \/ \E n \in 1..MaxCalls : RunIdle(n)

SpecCache == CInit /\ [][CNext]_vars

(***************************************************************************)
(* Properties of the remote cache coordinator.                             *)
(***************************************************************************)
CallsAt == {n \in 1..Len(log) : log[n].type = "call"}
IdlesAt == {n \in 1..Len(log) : log[n].type = "idle"}

\* the calls for which _get_batch ran
BatchedAt == {n \in CallsAt : log[n].batch # 0}

\* options that are equal when None values and the order are ignored
SameOptions(o1, o2) ==
    {o1[n] : n \in {m \in 1..Len(o1) : o1[m][2] # None}}
        = {o2[n] : n \in {m \in 1..Len(o2) : o2[m][2] # None}}

SameSlot(i, j) ==
    /\ BatchClass(log[i].op) = BatchClass(log[j].op)
    /\ SameOptions(log[i].options, log[j].options)

IdleBetween(b, i, j) == \E m \in IdlesAt : i < m /\ m < j /\ log[m].batch = b

IdlesOf(b) == {m \in IdlesAt : log[m].batch = b}

C7_WitnessOrder ==
    \E i, j \in BatchedAt :
        /\ i < j
        /\ Len(log[i].options) = 2
        /\ log[i].options # log[j].options
        /\ log[i].batch = log[j].batch

ArgKeys(arg) == {arg[n][1] : n \in 1..Len(arg)}
TodoKeys(batch) == {batch.todo[n].key : n \in 1..Len(batch.todo)}

C8_WitnessSameKey ==
    /\ Len(log) = 3 /\ log[3].type = "idle" /\ ~log[3].raised
    /\ log[1].key = log[2].key /\ log[1].batch = log[2].batch /\ Len(log[3].arg) = 1
    /\ futures[1].state = "done" /\ futures[2] = futures[1]

\* the calls whose futures wait in batch b
AddedTo(b) == {i \in CallsAt : log[i].batch = b /\ log[i].future # 0}

\* the value call i passed to add, as add stores it
CallValue(i) ==
    TodoValue(BatchClass(log[i].op),
              IF log[i].op = "cache_set_locked" THEN _LOCKED ELSE "entity")

\* C40: the backend call of a set or compare-and-swap batch holds one entry
\* for each key of the batch, with the value of the last call made for the
\* key, and after the call the future of every call for the key is done
\* with the result the backend gave for the key.
C40_LastValueWins ==
    \A m \in IdlesAt :
       SetLike(heap[log[m].batch].cls) =>
          \A i \in AddedTo(log[m].batch) :
             LET same == {j \in AddedTo(log[m].batch) : log[j].key = log[i].key}
                 last == CHOOSE j \in same : \A k \in same : k <= j
                 at == {n \in 1..Len(log[m].arg) : log[m].arg[n][1] = CacheKey(log[i].key)}
             IN /\ Cardinality(at) = 1
                /\ \A n \in at :
                      /\ log[m].arg[n][2] = CallValue(last)
                      /\ ~log[m].raised =>
                            futures[log[i].future] =
                               [state |-> "done", result |-> log[m].values[n]]

\* the key was locked and then set to an entity in one batch: the backend
\* got the entity alone and both futures its answer
C40_Witness ==
    /\ Len(log) = 3 /\ log[3].type = "idle" /\ ~log[3].raised
    /\ log[1].op = "cache_set_locked" /\ log[2].op = "cache_set"
    /\ log[1].batch = log[2].batch /\ log[3].batch = log[1].batch
    /\ log[3].arg = << <<CacheKey(1), "pb">> >>
    /\ log[3].values = <<"True">>
    /\ futures[1] = [state |-> "done", result |-> "True"]
    /\ futures[2] = futures[1]

\* two compare-and-swaps of one key in one batch
C40_WitnessCas ==
    /\ Len(log) = 3 /\ log[3].type = "idle" /\ ~log[3].raised
    /\ log[1].op = "cache_cas" /\ log[2].op = "cache_cas"
    /\ Len(log[3].arg) = 1
    /\ futures[1] = [state |-> "done", result |-> "False"]
    /\ futures[2] = futures[1]

\* C9 as stated: after a backend call that raised, every future of the batch
\* is completed with the exception.
C9_FailureReachesFutures ==
    \A m \in IdlesAt :
        log[m].raised =>
            \A w \in WaitersOf(heap[log[m].batch]) : futures[w[2]].state = "failed"

\* C10: in a context without remote cache every call returns a future that is
\* already done with None; no batch is created, no idle callback is
\* registered and no backend call is made.
C10_Unavailable ==
    remote_cache = None =>
        /\ batches = <<>> /\ heap = <<>> /\ idlers = <<>>
        /\ IdlesAt = {}
        /\ \A n \in CallsAt :
              /\ log[n].batch = 0
              /\ log[n].future # 0
              /\ futures[log[n].future] = [state |-> "done", result |-> "None"]
        /\ Len(futures) = Cardinality(CallsAt)

\* without remote cache, cache_set_locked and a cache_set with a keyword that
\* add would reject both returned completed futures
C10_Witness ==
    /\ remote_cache = None
    /\ \E i, j \in CallsAt :
          /\ log[i].op = "cache_set_locked"
          /\ log[j].op = "cache_set" /\ Len(log[j].options) = 2
    /\ Len(futures) = 2 /\ futures[2].state = "done"

\* the set-like backend calls that store the lock sentinel for some key
LockWritesAt ==
    {n \in IdlesAt : /\ SetLike(heap[log[n].batch].cls)
                     /\ \E m \in 1..Len(log[n].arg) : log[n].arg[m][2] = _LOCKED}

\* C11: a lock for write reaches the backend as a set call that stores the
\* lock sentinel together with the expiration _LOCK_TIME; the sentinel is
\* never written to the backend without that expiration
C11_LockStoredWithExpiration ==
    \A n \in LockWritesAt : log[n].expire = Some(_LOCK_TIME)

(***************************************************************************)
(* The in-process global cache (_cache.py).  The dict `cache` belongs to   *)
(* the class, so every cache object shares it; `_watch_keys` belongs to    *)
(* the object.  The entry of the key is None or {<<value, expires>>}.      *)
(* time.time() is the reading of a clock that does not run backwards; two  *)
(* calls may read the same time.                                           *)
(***************************************************************************)
MaxTicks == 1

Entry(value, expires) == {<<value, expires>>}
EntryValue(entry) == (CHOOSE e \in entry : TRUE)[1]
EntryExpires(entry) == (CHOOSE e \in entry : TRUE)[2]

\* the values written: the lock marker and a serialized entity
CacheValues == {_LOCKED_BYTES, "pb"}
ExpiresArgs == {None, Some(_LOCK_TIME)}

\* time passes between two calls
Tick ==
    /\ clock.ticks < MaxTicks
    /\ \E d \in {1, _LOCK_TIME} :
          clock' = [now |-> clock.now + d, ticks |-> clock.ticks + 1]
    /\ UNCHANGED <<cache, watch_keys, ret, since_watch, threads>>
    /\ UNCHANGED <<qvars, cvars, xvars>>

\* lines 155-156 and 179-180: the time at which the entry expires
ExpiresAt(expires) == IF Truthy(expires) THEN Some(clock.now + ValueOf(expires)) ELSE expires

\* what has been written since each object watched the key, after a write
\* through object i: "relocked" when the last write is a lock set through
\* another object
Written(i, value, expires) ==
    [j \in Instances |->
        IF since_watch[j] = "unwatched" THEN "unwatched"
        ELSE IF j # i /\ value = _LOCKED_BYTES /\ expires = Some(_LOCK_TIME)
        THEN "relocked" ELSE "written"]

\* the call that was made last: the object, the method, what get returned or
\* raised, and for compare_and_swap whether the key had been locked again and
\* whether the value was stored
Returned(i, op, raised, values, swapped) ==
    [inst |-> i, op |-> op, raised |-> raised, values |-> values,
     relocked |-> op = "compare_and_swap" /\ since_watch[i] = "relocked",
     swapped |-> swapped]

\* _InProcessGlobalCache.get([key]): TypeError when the key is absent, else
\* the list of the values whose expiry time is set and has passed
GlobalCacheGet(i) ==
    /\ ret' = IF cache = None
              THEN Returned(i, "get", TRUE, <<>>, FALSE)
              ELSE Returned(i, "get", FALSE,
                            IF Truthy(EntryExpires(cache))
                                  /\ ValueOf(EntryExpires(cache)) < clock.now
                            THEN <<EntryValue(cache)>> ELSE <<>>, FALSE)
    /\ UNCHANGED <<clock, cache, watch_keys, since_watch, threads>>
    /\ UNCHANGED <<qvars, cvars, xvars>>

\* _InProcessGlobalCache.set({key: value}, expires)
GlobalCacheSet(i, value, expires) ==
    /\ cache' = Entry(value, ExpiresAt(expires))
    /\ since_watch' = Written(i, value, expires)
    /\ ret' = Returned(i, "set", FALSE, <<>>, FALSE)
    /\ UNCHANGED <<clock, watch_keys, threads>>
    /\ UNCHANGED <<qvars, cvars, xvars>>

\* _InProcessGlobalCache.delete([key])
GlobalCacheDelete(i) ==
    /\ cache' = None
    /\ since_watch' = Written(i, "None", None)
    /\ ret' = Returned(i, "delete", FALSE, <<>>, FALSE)
    /\ UNCHANGED <<clock, watch_keys, threads>>
    /\ UNCHANGED <<qvars, cvars, xvars>>

\* _InProcessGlobalCache.watch([key])
GlobalCacheWatch(i) ==
    /\ watch_keys' = [watch_keys EXCEPT ![i] = cache]
    /\ since_watch' = [since_watch EXCEPT ![i] = "unwritten"]
    /\ ret' = Returned(i, "watch", FALSE, <<>>, FALSE)
    /\ UNCHANGED <<clock, cache, threads>>
    /\ UNCHANGED <<qvars, cvars, xvars>>

\* line 186: the entry is the one that was watched
Swaps(watch_value, current_value) == watch_value = current_value

\* _InProcessGlobalCache.compare_and_swap({key: new_value}, expires)
GlobalCacheCompareAndSwap(i, new_value, expires) ==
    /\ IF Swaps(watch_keys[i], cache)
       THEN /\ cache' = Entry(new_value, ExpiresAt(expires))
            /\ since_watch' = Written(i, new_value, expires)
            /\ ret' = Returned(i, "compare_and_swap", FALSE, <<>>, TRUE)
       ELSE /\ ret' = Returned(i, "compare_and_swap", FALSE, <<>>, FALSE)
            /\ UNCHANGED <<cache, since_watch>>
    /\ UNCHANGED <<clock, watch_keys, threads>>
    /\ UNCHANGED <<qvars, cvars, xvars>>

\* global_set(key, value, expires): the batch that _GlobalCacheSetBatch.add
\* leaves behind when `self.futures.add(future)` raises on the list
GlobalSet(key, value, expires) ==
    [error |-> "AttributeError",
     todo |-> Entry(value, IF Truthy(expires) THEN expires ELSE None)]

\* global_lock(key) as the first step of a writer
GlobalLock(t) ==
    /\ threads[t].pc = "start"
    /\ LET call == GlobalSet(somekey, _LOCKED_BYTES, Some(_LOCK_TIME))
       IN threads' = [threads EXCEPT ![t] = [pc |-> "raised", error |-> call.error,
                                             lock |-> None, todo |-> call.todo]]
    /\ UNCHANGED <<clock, cache, watch_keys, ret, since_watch>>
    /\ UNCHANGED <<qvars, cvars, xvars>>

LInit ==
    /\ LockOff
    /\ QueryOff
    /\ CacheOff
    /\ TaskletsOff
    /\ CountOff
    /\ CursorOff
    /\ FilterOff
    /\ RuntimeOff

LNext ==
    \/ Tick
    \/ \E i \in Instances : GlobalCacheGet(i)
    \/ \E i \in Instances, value \in CacheValues, expires \in ExpiresArgs :
          GlobalCacheSet(i, value, expires)
    \/ \E i \in Instances : GlobalCacheDelete(i)
    \/ \E i \in Instances : GlobalCacheWatch(i)
    \/ \E i \in Instances, value \in CacheValues, expires \in ExpiresArgs :
          GlobalCacheCompareAndSwap(i, value, expires)
    \/ \E t \in Instances : GlobalLock(t)

SpecLock == LInit /\ [][LNext]_vars

(***************************************************************************)
(* Properties of the global cache.                                         *)
(***************************************************************************)
\* C5 as stated: when another writer has locked the key again since writer
\* i watched it, the compare-and-swap of writer i changes nothing (the lock
\* of the other writer stays in the cache).
C5_RelockDefeatsSwap ==
    (ret.op = "compare_and_swap" /\ ret.relocked) => ~ret.swapped

\* C6 as stated, for the first step of each writer: once a writer has run
\* its lock-for-write it holds a lock token, and the cache holds the
\* sentinel for the key, so that the get that follows reads it.
C6_LockIsRead ==
    \A t \in Instances :
        threads[t].pc # "start" =>
            /\ threads[t].error = "none"
            /\ threads[t].lock # None
            /\ cache # None

\* C27: compare_and_swap through a cache object writes the key only if the
\* object has watched the key before and the entry has not been written
\* since that watch; when another writer has set the key in between, the
\* key is left as it is
C27_SwapOnlyWatched ==
    [][(ret'.op = "compare_and_swap" /\ ret'.swapped) =>
          since_watch[ret'.inst] \notin {"unwatched", "relocked"}]_vars

\* C28: get([key]) returns one entry for the key: the value stored when the
\* key is in the cache and has not expired, None otherwise
C28_GetOnePerKey ==
    [][(ret'.op = "get" /\ UNCHANGED <<clock, cache, watch_keys, since_watch, threads>>) =>
          /\ ~ret'.raised
          /\ ret'.values =
                IF cache = None THEN <<"None">>
                ELSE IF Truthy(EntryExpires(cache)) /\ ValueOf(EntryExpires(cache)) < clock.now
                THEN <<"None">>
                ELSE <<EntryValue(cache)>>]_vars

(***************************************************************************)
(* One _QueryIteratorImpl (a plain query, no offset, no limit) on which    *)
(* has_next_async() is called at any time, also while an earlier call      *)
(* still waits for its batch.  Every call is a tasklet that runs to its     *)
(* first `yield`; `wire` is the sequence of run_query requests and          *)
(* responses of the iterator.  A cursor is a position in Stored.            *)
(***************************************************************************)
MaxTasklets == 3
MaxRequests == 3

\* the results of the query in the backend, in the order it returns them
Stored == <<1, 2>>

RequestsAt == {n \in 1..Len(wire) : wire[n].type = "request"}
ResponsesAt == {n \in 1..Len(wire) : wire[n].type = "response"}
Outstanding == {n \in RequestsAt : ~\E m \in ResponsesAt : wire[m].request = n}

\* the position a cursor stands for
PositionOf(cursor) == IF cursor = None THEN 0 ELSE ValueOf(cursor)

\* _datastore_run_query(query): the request carries query.start_cursor
RunQuery(t, it) == [type |-> "request", tasklet |-> t, start |-> it.start_cursor]

\* what the backend may answer to the request: the next results from its
\* start cursor on, NOT_FINISHED or, once nothing is left, NO_MORE_RESULTS
Answer(n) ==
    LET p == PositionOf(wire[n].start)
        left == Len(Stored) - p
    IN UNION {{[results |-> SubSeq(Stored, p + 1, p + k), more |-> m, skipped |-> 0,
                end_cursor |-> p + k] :
                  m \in {x \in {NOT_FINISHED, NO_MORE_RESULTS} :
                           /\ x = NOT_FINISHED => Cardinality(RequestsAt) < MaxRequests
                           /\ x = NO_MORE_RESULTS => k = left}} :
              k \in 0..(IF left < MaxBatchLen THEN left ELSE MaxBatchLen)}

\* faulty variant: the tasklet does not wait for the batch it asked for
NotSuspended(it) == [pc |-> "idle", ans |-> "false", overlapped |-> FALSE]

\* `yield self._next_batch()`: the tasklet is suspended until the batch is there
Suspended(it) == [pc |-> it.pc, ans |-> "none", overlapped |-> FALSE]

\* a tasklet that returned
Finished(it) == [pc |-> "idle", ans |-> it.ans, overlapped |-> FALSE]

Waiting == {t \in 1..Len(tasklets) : tasklets[t].pc # "idle"}

TInit ==
    /\ iter = NewIterator(None, None)
    /\ tasklets = <<>>
    /\ wire = <<>>
    /\ QueryOff
    /\ CacheOff
    /\ LockOff
    /\ CountOff
    /\ CursorOff
    /\ FilterOff
    /\ RuntimeOff

\* has_next_async() is called: a new tasklet runs up to its first yield
HasNextAsyncCall ==
    /\ Len(tasklets) < MaxTasklets
    /\ LET t == Len(tasklets) + 1
           it == HasNextAsync(iter)
           state == IF it.pc = "idle" THEN Finished(it) ELSE Suspended(it)
       IN /\ it.pc # "idle" => Cardinality(RequestsAt) < MaxRequests
          /\ tasklets' = Append(tasklets, [state EXCEPT !.overlapped = Waiting # {}])
          /\ wire' = IF it.pc = "idle" THEN wire ELSE Append(wire, RunQuery(t, iter))
          /\ UNCHANGED iter
    /\ UNCHANGED <<qvars, cvars, lvars, kvars, uvars, yvars>>

\* the response to request n arrives: _next_batch of its tasklet completes
\* and the tasklet goes on to its next yield or returns
RunQueryResponse(n) ==
    /\ n \in Outstanding
    /\ \E resp \in Answer(n) :
         LET t == wire[n].tasklet
             it == OnResponse([iter EXCEPT !.pc = tasklets[t].pc], resp)
             state == IF it.pc = "idle" THEN Finished(it) ELSE Suspended(it)
             answered == Append(wire, [type |-> "response", request |-> n,
                                       more |-> resp.more,
                                       end_cursor |-> Some(resp.end_cursor)])
         IN /\ iter' = [it EXCEPT !.pc = "idle", !.ans = "none"]
            /\ tasklets' = [tasklets EXCEPT
                              ![t] = [state EXCEPT !.overlapped = tasklets[t].overlapped]]
            /\ wire' = IF it.pc = "idle" THEN answered
                       ELSE Append(answered, RunQuery(t, it))
    /\ UNCHANGED <<qvars, cvars, lvars, kvars, uvars, yvars>>

\* next() while a result is buffered: has_next() is True without a request
BufferedNext ==
    /\ iter.started
    /\ iter.index < Len(iter.batch)
    /\ iter' = IterNext(iter)
    /\ UNCHANGED <<tasklets, wire>>
    /\ UNCHANGED <<qvars, cvars, lvars, kvars, uvars, yvars>>

TNext ==
    \/ HasNextAsyncCall
    \/ \E n \in 1..(2 * MaxRequests) : RunQueryResponse(n)
    \/ BufferedNext

SpecTasklets == TInit /\ [][TNext]_vars

MaxStored == 2

\* query.filters: None, or a node with _multiquery and _post_filters()
Filters ==
    {None} \cup {Some([_multiquery |-> mq, _post_filters |-> pf]) :
                    mq \in BOOLEAN, pf \in BOOLEAN}

\* os.environ.get(GCD_HOST): not set, set to the empty string, set to a host
GcdHosts == {"None", "", "localhost:8081"}

\* bool(os.environ.get(environment_vars.GCD_HOST))
EnvBool(value) == value \notin {"None", ""}

\* faulty variant: the environment is not looked at
CountStrategyNoEnv(filters, gcd_host) ==
    IF filters # None /\ (ValueOf(filters)._multiquery \/ ValueOf(filters)._post_filters)
    THEN "_count_brute_force"
    ELSE "_count_by_skipping"

\* count, lines 128-139: the function the query is counted with
CountStrategy(filters, gcd_host) ==
    IF filters # None /\ (ValueOf(filters)._multiquery \/ ValueOf(filters)._post_filters)
    THEN "_count_brute_force"
    ELSE IF EnvBool(gcd_host) THEN "_count_brute_force"
    ELSE "_count_by_skipping"

\* iterate() gives a _QueryIteratorImpl for the query
Plain(filters) ==
    IF filters = None THEN TRUE
    ELSE ~ValueOf(filters)._multiquery /\ ~ValueOf(filters)._post_filters

\* the offset _count_by_skipping asks for when the query has no limit
SkipAll == 10000

\* a request of a counting run: the start cursor (a position), and the offset
\* and the limit as _query_to_protobuf sends them (`if query.offset:`,
\* `if query.limit:`); the backend rejects a limit below 0
CountRequest(start, offset, limit) ==
    [start |-> start,
     offset |-> IF Truthy(offset) THEN offset ELSE None,
     limit |-> IF Truthy(limit) THEN limit ELSE None]

Smaller(a, b) == IF a < b THEN a ELSE b

\* what a backend that honours offset and limit may answer: it skips up to
\* the offset, then returns up to the limit; a response that did not get
\* that far is NOT_FINISHED, and so may be any response while the backend
\* has answers left to give
CountAnswers(req, rpcs) ==
    LET p == PositionOf(req.start)
        left == counted.stored - p
        toskip == Smaller(OrZero(req.offset), left)
    IN UNION {UNION {
         LET avail == left - s
             want == IF req.limit = None THEN avail ELSE Smaller(ValueOf(req.limit), avail)
             finished == s = toskip /\ k = want
             final == IF req.limit # None /\ k = ValueOf(req.limit) /\ avail - k > 0
                      THEN {MORE_RESULTS_AFTER_LIMIT}
                      ELSE IF req.limit # None /\ k = ValueOf(req.limit)
                      THEN {MORE_RESULTS_AFTER_LIMIT, NO_MORE_RESULTS}
                      ELSE {NO_MORE_RESULTS}
         IN {[results |-> [n \in 1..k |-> p + s + n], more |-> m, skipped |-> s,
              end_cursor |-> p + s + k] :
                m \in (IF finished THEN final ELSE {})
                        \cup (IF rpcs + 1 < MaxRpc + 1 THEN {NOT_FINISHED} ELSE {})} :
         k \in 0..(IF s < toskip THEN 0
                   ELSE Smaller(MaxBatchLen,
                                IF req.limit = None THEN left - s
                                ELSE Smaller(ValueOf(req.limit), left - s)))} :
         s \in 0..toskip}

\* the request the iterator of the brute-force run is waiting for
IteratorRequest(it) == CountRequest(it.start_cursor, it.qoffset, it.qlimit)

RECURSIVE BruteLoop(_, _, _)
RECURSIVE BruteAnswer(_, _, _)

\* _count_brute_force, lines 149-153: has_next_async() has completed
BruteAnswer(it, count, limit) ==
    IF it.ans = "false" THEN [it |-> it, count |-> count, pc |-> "done", rpcs |-> 0]
    ELSE IF Truthy(limit) /\ count + 1 = ValueOf(limit)
    THEN [it |-> it, count |-> count + 1, pc |-> "done", rpcs |-> 0]
    ELSE BruteLoop(IterNext(it), count + 1, limit)

\* _count_brute_force, line 149: `while (yield results.has_next_async())`
BruteLoop(it0, count, limit) ==
    LET it == HasNextAsync(it0)
    IN IF it.pc # "idle" THEN [it |-> it, count |-> count, pc |-> "wait", rpcs |-> 0]
       ELSE BruteAnswer(it, count, limit)

\* faulty variant: the offset asked for is the whole of the limit
SkipLoopWholeLimit(count, cursor, more_results, limit, rpcs) ==
    IF more_results # NO_MORE_RESULTS
    THEN [count |-> count, cursor |-> cursor, more_results |-> more_results,
          pc |-> "wait", rpcs |-> rpcs,
          request |-> CountRequest(cursor,
                                   IF Truthy(limit) THEN Some(ValueOf(limit) - count)
                                   ELSE Some(SkipAll),
                                   Some(1))]
    ELSE [count |-> count, cursor |-> cursor, more_results |-> more_results,
          pc |-> "done", rpcs |-> rpcs, request |-> None]

\* _count_by_skipping, lines 166-172: the loop up to the request
SkipLoop(count, cursor, more_results, limit, rpcs) ==
    IF more_results # NO_MORE_RESULTS
    THEN [count |-> count, cursor |-> cursor, more_results |-> more_results,
          pc |-> "wait", rpcs |-> rpcs,
          request |-> CountRequest(cursor,
                                   IF Truthy(limit) THEN Some(ValueOf(limit) - count - 1)
                                   ELSE Some(SkipAll),
                                   Some(1))]
    ELSE [count |-> count, cursor |-> cursor, more_results |-> more_results,
          pc |-> "done", rpcs |-> rpcs, request |-> None]

\* _count_by_skipping, lines 174-182: from the response to the next request
SkipAnswer(sk, resp, limit) ==
    LET count == sk.count + resp.skipped + Len(resp.results)
    IN IF Truthy(limit) /\ count >= ValueOf(limit)
       THEN [sk EXCEPT !.count = count, !.pc = "done", !.rpcs = @ + 1, !.request = None]
       ELSE SkipLoop(count, Some(resp.end_cursor), resp.more, limit, sk.rpcs + 1)

KInit ==
    /\ counted \in [filters : Filters, gcd_host : GcdHosts, offset : Offsets,
                    limit : Limits, stored : 0..MaxStored, strategy : {"none"}]
    /\ brute = [pc |-> "start"]
    /\ skipping = [pc |-> "start"]
    /\ QueryOff
    /\ CacheOff
    /\ LockOff
    /\ TaskletsOff
    /\ CursorOff
    /\ FilterOff
    /\ RuntimeOff

\* count(query)
CountCall ==
    /\ counted.strategy = "none"
    /\ counted' = [counted EXCEPT !.strategy = CountStrategy(counted.filters, counted.gcd_host)]
    /\ UNCHANGED <<brute, skipping>>
    /\ UNCHANGED <<qvars, cvars, lvars, tvars, uvars, yvars>>

\* _count_brute_force(query) runs to its first yield
BruteStart ==
    /\ Plain(counted.filters)
    /\ brute.pc = "start"
    /\ brute' = BruteLoop(NewIterator(counted.offset, counted.limit), 0, counted.limit)
    /\ UNCHANGED <<counted, skipping>>
    /\ UNCHANGED <<qvars, cvars, lvars, tvars, uvars, yvars>>

\* the backend answers the iterator of the brute-force run
BruteResponse ==
    /\ brute.pc = "wait"
    /\ \E resp \in CountAnswers(IteratorRequest(brute.it), brute.rpcs) :
          LET it == OnResponse(brute.it, resp)
              run == IF it.pc = "idle" THEN BruteAnswer(it, brute.count, counted.limit)
                     ELSE [it |-> it, count |-> brute.count, pc |-> "wait", rpcs |-> 0]
          IN brute' = [run EXCEPT !.rpcs = brute.rpcs + 1]
    /\ UNCHANGED <<counted, skipping>>
    /\ UNCHANGED <<qvars, cvars, lvars, tvars, uvars, yvars>>

\* _count_by_skipping(query) runs to its first yield
SkipStart ==
    /\ Plain(counted.filters)
    /\ skipping.pc = "start"
    /\ skipping' = SkipLoop(0, None, NOT_FINISHED, counted.limit, 0)
    /\ UNCHANGED <<counted, brute>>
    /\ UNCHANGED <<qvars, cvars, lvars, tvars, uvars, yvars>>

\* the backend answers _count_by_skipping
SkipResponse ==
    /\ skipping.pc = "wait"
    /\ \E resp \in CountAnswers(skipping.request, skipping.rpcs) :
          skipping' = SkipAnswer(skipping, resp, counted.limit)
    /\ UNCHANGED <<counted, brute>>
    /\ UNCHANGED <<qvars, cvars, lvars, tvars, uvars, yvars>>

KNext ==
    \/ CountCall
    \/ BruteStart
    \/ BruteResponse
    \/ SkipStart
    \/ SkipResponse

SpecCount == KInit /\ [][KNext]_vars

(***************************************************************************)
(* _count_by_skipping alone, on a plain query with a limit of up to        *)
(* MaxWindow + 2.                                                          *)
(***************************************************************************)
SkipInit ==
    /\ counted \in [filters : {None}, gcd_host : {"None"}, offset : {None},
                    limit : {None} \cup {Some(n) : n \in 0..(MaxWindow + 2)},
                    stored : 0..(MaxStored + 1), strategy : {"_count_by_skipping"}]
    /\ brute = [pc |-> "start"]
    /\ skipping = [pc |-> "start"]
    /\ QueryOff
    /\ CacheOff
    /\ LockOff
    /\ TaskletsOff
    /\ CursorOff
    /\ FilterOff
    /\ RuntimeOff

SkipNext ==
    \/ SkipStart
    \/ SkipResponse

SpecSkip == SkipInit /\ [][SkipNext]_vars

\* C38: with a limit L >= 1 every request of _count_by_skipping asks for
\* one result after an offset of L - count - 1, which is not negative, and
\* the count never exceeds L; with no limit, or a limit of 0, every request
\* asks for an offset of 10000 and the loop ends only on NO_MORE_RESULTS.
C38_Skipping ==
    skipping.pc \in {"wait", "done"} =>
       IF Truthy(counted.limit)
       THEN /\ skipping.count <= ValueOf(counted.limit)
            /\ skipping.pc = "wait" =>
                  /\ skipping.request.limit = Some(1)
                  /\ ValueOf(counted.limit) - skipping.count - 1 >= 0
                  /\ OrZero(skipping.request.offset)
                        = ValueOf(counted.limit) - skipping.count - 1
       ELSE /\ skipping.pc = "wait" =>
                  /\ skipping.request.limit = Some(1)
                  /\ skipping.request.offset = Some(SkipAll)
            /\ skipping.pc = "done" => skipping.more_results = NO_MORE_RESULTS

\* a second request, with an offset of 1 after a first that skipped one
\* result of a query with limit 3
C38_Witness ==
    /\ counted.limit = Some(3)
    /\ skipping.pc = "wait"
    /\ skipping.rpcs = 1
    /\ skipping.count = 1
    /\ skipping.request.offset = Some(1)

\* the count has reached the limit
C38_WitnessLimit ==
    /\ counted.limit = Some(2)
    /\ skipping.pc = "done"
    /\ skipping.count = 2
    /\ skipping.more_results # NO_MORE_RESULTS

\* a query without limit has been counted in two requests
C38_WitnessNoLimit ==
    /\ counted.limit = None
    /\ skipping.pc = "done"
    /\ skipping.rpcs = 2
    /\ skipping.count = 2

NeedsBruteForce(filters) ==
    IF filters = None THEN FALSE
    ELSE ValueOf(filters)._multiquery \/ ValueOf(filters)._post_filters

\* C13: count(query) counts by brute force whenever the filters need a
\* multi-query or have post-filters, and whenever GCD_HOST is set in the
\* environment (to a value that is not empty); a plain query without
\* post-filters outside the emulator is counted by skipping
C13_CountStrategy ==
    counted.strategy \notin {"off", "none"} =>
       /\ NeedsBruteForce(counted.filters) => counted.strategy = "_count_brute_force"
       /\ counted.gcd_host = "localhost:8081" => counted.strategy = "_count_brute_force"
       /\ (~NeedsBruteForce(counted.filters) /\ counted.gcd_host \in {"None", ""})
             => counted.strategy = "_count_by_skipping"

\* a plain query was counted under the emulator
C13_Witness ==
    /\ counted.strategy = "_count_brute_force"
    /\ ~NeedsBruteForce(counted.filters)
    /\ counted.filters # None

\* a query with post-filters and one without were counted outside the emulator
C13_WitnessSkipping ==
    /\ counted.strategy = "_count_by_skipping"
    /\ counted.filters # None

BothCounted == brute.pc = "done" /\ skipping.pc = "done"

\* C14: for a plain query, whatever the backend holds and whatever limit and
\* offset the query carries, _count_by_skipping returns the number that
\* _count_brute_force returns
C14_SameCount == BothCounted => skipping.count = brute.count

\* the two counts agree for a query without offset
C14_SameCountNoOffset ==
    (BothCounted /\ counted.offset = None) => skipping.count = brute.count

(***************************************************************************)
(* The filter of _next_batch on a batch of results, in a context whose     *)
(* cache holds, for a key, nothing ("absent"), None (the entity was        *)
(* deleted), the entity, or an entity whose key has changed since          *)
(* ("moved"), and whose cache policy says for which keys the cache is      *)
(* used.                                                                    *)
(***************************************************************************)
RESULT_TYPE_FULL == "FULL"
RESULT_TYPE_KEY_ONLY == "KEY_ONLY"
RESULT_TYPE_PROJECTION == "PROJECTION"
ResultTypes == {RESULT_TYPE_FULL, RESULT_TYPE_KEY_ONLY, RESULT_TYPE_PROJECTION}

_KEY_NOT_IN_CACHE == "_KEY_NOT_IN_CACHE"

CacheEntries == {"absent", "None", "entity", "moved"}

\* context._use_cache(key): the cache policy of the context
UseCache(context, key) == context.use_cache[key]

\* ContextCache.get_and_validate: the entry, or KeyError when there is none
\* or when the key of the cached entity has changed (the entry is deleted)
GetAndValidate(context, key) ==
    IF context.cache[key] \in {"None", "entity"} THEN context.cache[key] ELSE "KeyError"

\* faulty variant: the cache is read whatever the policy says
CheckCacheAnyPolicy(context, key) ==
    IF GetAndValidate(context, key) # "KeyError"
    THEN GetAndValidate(context, key)
    ELSE _KEY_NOT_IN_CACHE

\* _Result.check_cache
CheckCache(context, key) ==
    IF UseCache(context, key) /\ GetAndValidate(context, key) # "KeyError"
    THEN GetAndValidate(context, key)
    ELSE _KEY_NOT_IN_CACHE

\* _next_batch, lines 377-392: the batch kept of the results of the response
FilterBatch(result_type, results, context) ==
    LET keeps(key) == CheckCache(context, key) # "None"
    IN IF result_type = RESULT_TYPE_FULL THEN SelectSeq(results, keeps) ELSE results

\* the cache after check_cache was called for the results
CacheAfter(result_type, results, context) ==
    [key \in Entities |->
        IF /\ result_type = RESULT_TYPE_FULL
           /\ key \in {results[n] : n \in 1..Len(results)}
           /\ UseCache(context, key)
           /\ context.cache[key] = "moved"
        THEN "absent" ELSE context.cache[key]]

\* the batches of results a response may carry
ResultBatches ==
    {r \in UNION {[1..n -> Entities] : n \in 0..MaxBatchLen} :
        \A i, j \in 1..Len(r) : i # j => r[i] # r[j]}

FInit ==
    /\ received \in [pc : {"response"}, result_type : ResultTypes, results : ResultBatches,
                     context : [cache : [Entities -> CacheEntries],
                                use_cache : [Entities -> BOOLEAN]],
                     batch : {<<>>}]
    /\ CursorOff
    /\ QueryOff
    /\ CacheOff
    /\ LockOff
    /\ TaskletsOff
    /\ CountOff
    /\ RuntimeOff

\* _next_batch from the response to self._batch
ReceiveBatch ==
    /\ received.pc = "response"
    /\ received' = [received EXCEPT
                      !.pc = "batch",
                      !.batch = FilterBatch(received.result_type, received.results,
                                            received.context),
                      !.context.cache = CacheAfter(received.result_type, received.results,
                                                   received.context)]
    /\ UNCHANGED cur
    /\ UNCHANGED <<qvars, cvars, lvars, tvars, kvars, yvars>>

FNext == ReceiveBatch

SpecFilter == FInit /\ [][FNext]_vars

\* the subsequence of s of the elements in keep
RECURSIVE Restrict(_, _)
Restrict(s, keep) ==
    IF s = <<>> THEN <<>>
    ELSE IF Head(s) \in keep THEN <<Head(s)>> \o Restrict(Tail(s), keep)
    ELSE Restrict(Tail(s), keep)

\* the keys whose deletion the cache of the context records, for the context
\* as it was when the batch arrived: the cache is used for the key and holds
\* None for it
Tombstones ==
    {key \in Entities : received.context.use_cache[key] /\ received.context.cache[key] = "None"}

\* C19: of a batch of FULL results, every result whose key the context cache
\* holds as None is removed and every other result (key not cached, key
\* cached with an entity, context cache not used for the key) is kept, in
\* the original order; KEY_ONLY and PROJECTION batches are not filtered
C19_TombstoneFilter ==
    received.pc = "batch" =>
       IF received.result_type = RESULT_TYPE_FULL
       THEN received.batch = Restrict(received.results, Entities \ Tombstones)
       ELSE received.batch = received.results

\* a FULL batch of two results, the first deleted in the context, the second
\* cached as None under a policy that does not use the cache for it
C19_Witness ==
    /\ received.pc = "batch"
    /\ received.result_type = RESULT_TYPE_FULL
    /\ Len(received.results) = 2 /\ Len(received.batch) = 1
    /\ received.context.cache[received.results[1]] = "None"
    /\ received.context.cache[received.results[2]] = "None"

\* a KEY_ONLY batch with a deleted key came through whole
C19_WitnessKeyOnly ==
    /\ received.pc = "batch"
    /\ received.result_type = RESULT_TYPE_KEY_ONLY
    /\ \E n \in 1..Len(received.results) : received.results[n] \in Tombstones
    /\ received.batch = received.results

(***************************************************************************)
(* Cursor.  A byte string is a sequence of byte values, its URL-safe form  *)
(* a sequence of characters; an optional argument is None or {value}.      *)
(***************************************************************************)
MaxCursorLen == 3

\* the byte values the cursors are made of
ByteValues == {0, 251, 255}

ByteStrings == UNION {[1..n -> ByteValues] : n \in 0..MaxCursorLen}

\* the alphabet of base64.urlsafe_b64encode
UrlsafeAlphabet ==
    <<
     "A", "B", "C", "D", "E", "F", "G", "H", "I", "J", "K", "L", "M", "N", "O", "P",
     "Q", "R", "S", "T", "U", "V", "W", "X", "Y", "Z", "a", "b", "c", "d", "e", "f",
     "g", "h", "i", "j", "k", "l", "m", "n", "o", "p", "q", "r", "s", "t", "u", "v",
     "w", "x", "y", "z", "0", "1", "2", "3", "4", "5", "6", "7", "8", "9", "-", "_" >>

Char(sextet) == UrlsafeAlphabet[sextet + 1]
Sextet(char) == CHOOSE n \in 0..63 : UrlsafeAlphabet[n + 1] = char

\* base64.urlsafe_b64encode: three bytes give four characters, a rest of one
\* or two bytes gives two or three characters and "=" up to four
RECURSIVE UrlsafeB64Encode(_)
UrlsafeB64Encode(b) ==
    IF Len(b) = 0 THEN <<>>
    ELSE IF Len(b) = 1
    THEN LET n == b[1] * 16
         IN <<Char(n \div 64), Char(n % 64), "=", "=">>
    ELSE IF Len(b) = 2
    THEN LET n == (b[1] * 256 + b[2]) * 4
         IN <<Char(n \div 4096), Char((n \div 64) % 64), Char(n % 64), "=">>
    ELSE LET n == b[1] * 65536 + b[2] * 256 + b[3]
         IN <<Char(n \div 262144), Char((n \div 4096) % 64), Char((n \div 64) % 64),
              Char(n % 64)>> \o UrlsafeB64Encode(SubSeq(b, 4, Len(b)))

\* base64.urlsafe_b64decode of a padded string: four characters give three
\* bytes, and fewer where the last ones are "="
RECURSIVE UrlsafeB64Decode(_)
UrlsafeB64Decode(u) ==
    IF Len(u) = 0 THEN <<>>
    ELSE IF u[3] = "="
    THEN LET n == Sextet(u[1]) * 64 + Sextet(u[2])
         IN <<n \div 16>>
    ELSE IF u[4] = "="
    THEN LET n == (Sextet(u[1]) * 4096 + Sextet(u[2]) * 64 + Sextet(u[3])) \div 4
         IN <<n \div 256, n % 256>>
    ELSE LET n == Sextet(u[1]) * 262144 + Sextet(u[2]) * 4096 + Sextet(u[3]) * 64
                    + Sextet(u[4])
         IN <<n \div 65536, (n \div 256) % 256, n % 256>>
               \o UrlsafeB64Decode(SubSeq(u, 5, Len(u)))

\* the truth of an optional byte string: neither None nor empty
TruthyBytes(x) == x # None /\ x # Some(<<>>)

\* Cursor.__init__, lines 1045-1053: self.cursor (TypeError when both are given)
CursorInit(cursor, urlsafe) ==
    IF TruthyBytes(urlsafe) THEN Some(UrlsafeB64Decode(ValueOf(urlsafe))) ELSE cursor

\* Cursor.urlsafe
CursorUrlsafe(cursor) == Some(UrlsafeB64Encode(ValueOf(cursor)))

UInit ==
    /\ cur \in [pc : {"bytes"}, b : ByteStrings, first : {None}, urlsafe : {None},
                second : {None}]
    /\ FilterOff
    /\ QueryOff
    /\ CacheOff
    /\ LockOff
    /\ TaskletsOff
    /\ CountOff
    /\ RuntimeOff

\* Cursor(b)
CursorFromBytes ==
    /\ cur.pc = "bytes"
    /\ cur' = [cur EXCEPT !.pc = "cursor", !.first = CursorInit(Some(cur.b), None)]
    /\ UNCHANGED received
    /\ UNCHANGED <<qvars, cvars, lvars, tvars, kvars, yvars>>

\* Cursor(b).urlsafe()
ToUrlsafe ==
    /\ cur.pc = "cursor"
    /\ cur' = [cur EXCEPT !.pc = "urlsafe", !.urlsafe = CursorUrlsafe(cur.first)]
    /\ UNCHANGED received
    /\ UNCHANGED <<qvars, cvars, lvars, tvars, kvars, yvars>>

\* Cursor(urlsafe=...)
CursorFromUrlsafe ==
    /\ cur.pc = "urlsafe"
    /\ cur' = [cur EXCEPT !.pc = "done", !.second = CursorInit(None, cur.urlsafe)]
    /\ UNCHANGED received
    /\ UNCHANGED <<qvars, cvars, lvars, tvars, kvars, yvars>>

UNext ==
    \/ CursorFromBytes
    \/ ToUrlsafe
    \/ CursorFromUrlsafe

SpecCursor == UInit /\ [][UNext]_vars

\* C20: for every byte string b, the empty one included,
\* Cursor(urlsafe=Cursor(b).urlsafe()).cursor == b
C20_RoundTrip == cur.pc = "done" => cur.second = Some(cur.b)

\* the round trip gives back every byte string that is not empty
C20_RoundTripNotEmpty == (cur.pc = "done" /\ cur.b # <<>>) => cur.second = Some(cur.b)

(***************************************************************************)
(* Contexts.  One thread constructs contexts, derives contexts with new(), *)
(* enters and leaves use() scopes and the scope of Client.context(), and   *)
(* works on the cache and on the event loop of the current context.  A     *)
(* context is named by its position in contexts; 0 stands for None.  A     *)
(* cache entry is written as in the filter above.  The event loop keeps    *)
(* its callbacks in a queue and run() calls them in turn; each callback    *)
(* here is the finish_up of test_context_unfinished_business, which asks   *)
(* for the current context.                                                 *)
(***************************************************************************)
MaxContexts == 2
MaxDepth == 2
MaxQueued == 1
MaxSets == 2

CacheKeys == {"foo", "bar"}
ContextError == "ContextError"
RuntimeError == "RuntimeError"

\* _ContextTuple.__new__ with a cache argument: a new cache with the entries
\* of the cache passed in
NewCache(data) == [key \in CacheKeys |-> data[key]]

\* _cache.ContextCache()
EmptyCache == [key \in CacheKeys |-> "absent"]

\* Context(client): a context with its own event loop and an empty cache
Context(id) ==
    [parent |-> 0, cache |-> NewCache(EmptyCache), eventloop |-> id, queue |-> 0]

\* context.new(): the fields of the context, its event loop included, and a
\* copy of its cache
ContextNew(c) ==
    [parent |-> c, cache |-> NewCache(contexts[c].cache),
     eventloop |-> contexts[c].eventloop, queue |-> 0]

\* what a call gives: a context, or the exception it raises
Returns(context) == [raised |-> "none", context |-> context]
Raises(exception) == [raised |-> exception, context |-> 0]

\* get_context() with the thread-local state st
GetContext(st) == IF st.context # 0 THEN Returns(st.context) ELSE Raises(ContextError)

get_context == GetContext(_state)

\* get_toplevel_context()
get_toplevel_context ==
    IF _state.toplevel_context # 0 THEN Returns(_state.toplevel_context)
    ELSE Raises(ContextError)

\* faulty variant: the entries of the scope that ends do not override
UpdateKeepsOld(target, source) ==
    [key \in CacheKeys |-> IF target[key] # "absent" THEN target[key] ELSE source[key]]

\* dict.update: prev_context.cache.update(self.cache)
Update(target, source) ==
    [key \in CacheKeys |-> IF source[key] # "absent" THEN source[key] ELSE target[key]]

\* faulty variant: the entry of a changed entity stays in the cache
DelKeeps(data, key) == data

\* ContextCache.get_and_validate, the cache it leaves: the entry of an entity
\* whose key has changed is deleted
Del(data, key) ==
    IF data[key] = "moved" THEN [data EXCEPT ![key] = "absent"] ELSE data

\* the first half of use(): up to the yield
UseEntered(c) ==
    [context |-> c,
     toplevel_context |-> IF _state.context = 0 THEN c ELSE _state.toplevel_context]

\* faulty variant: the scope that ends leaves no current context
UseLeftStateNone(frame) ==
    [context |-> 0,
     toplevel_context |-> IF frame.prev_context # 0 THEN _state.toplevel_context ELSE 0]

\* the finally clause of use(): the state and the contexts it leaves
UseLeftState(frame) ==
    [context |-> frame.prev_context,
     toplevel_context |-> IF frame.prev_context # 0 THEN _state.toplevel_context ELSE 0]

UseLeftContexts(frame) ==
    IF frame.prev_context # 0
    THEN [contexts EXCEPT ![frame.prev_context].cache =
             Update(contexts[frame.prev_context].cache, contexts[frame.self].cache)]
    ELSE contexts

\* EventLoop.run() with n callbacks queued, in the thread-local state st: the
\* callbacks are called in turn, each gives what get_context() gives it, and
\* a callback that raises ends the run
RECURSIVE RunCallbacks(_, _)
RunCallbacks(n, st) ==
    IF n = 0 THEN <<>>
    ELSE IF GetContext(st).raised # "none" THEN <<GetContext(st)>>
    ELSE <<GetContext(st)>> \o RunCallbacks(n - 1, st)

\* what a call gave, and the number of cache entries and entity keys set so
\* far
Seen(op, context, key, result, prev) ==
    [op |-> op, context |-> context, key |-> key, result |-> result, prev |-> prev,
     callbacks |-> <<>>, entry |-> "none",
     sets |-> IF op \in {"set", "change"} THEN seen.sets + 1 ELSE seen.sets]

Unseen == Seen("none", 0, "none", "none", 0)

NInit ==
    /\ contexts = <<>>
    /\ _state = [context |-> 0, toplevel_context |-> 0]
    /\ frames = <<>>
    /\ seen = [op |-> "none", context |-> 0, key |-> "none", result |-> "none",
               prev |-> 0, callbacks |-> <<>>, entry |-> "none", sets |-> 0]
    /\ QueryOff
    /\ CacheOff
    /\ LockOff
    /\ TaskletsOff
    /\ CountOff
    /\ CursorOff
    /\ FilterOff
    /\ IdsOff
    /\ RetryOff
    /\ ProjectionOff
    /\ DriversOff

NotContexts == <<qvars, cvars, lvars, tvars, kvars, uvars, ivars, retry, merged, zvars>>

\* Context(client)
Construct ==
    /\ Len(contexts) < MaxContexts
    /\ contexts' = Append(contexts, Context(Len(contexts) + 1))
    /\ seen' = Unseen
    /\ UNCHANGED <<_state, frames>>
    /\ UNCHANGED NotContexts

\* c.new()
New(c) ==
    /\ Len(contexts) < MaxContexts
    /\ contexts' = Append(contexts, ContextNew(c))
    /\ seen' = Unseen
    /\ UNCHANGED <<_state, frames>>
    /\ UNCHANGED NotContexts

\* with c.use(): the scope is entered
UseEnter(c) ==
    /\ Len(frames) < MaxDepth
    /\ frames' = Append(frames, [self |-> c, prev_context |-> _state.context,
                                 client |-> FALSE])
    /\ _state' = UseEntered(c)
    /\ seen' = Unseen
    /\ UNCHANGED contexts
    /\ UNCHANGED NotContexts

\* the innermost use() scope ends, by reaching its end or by an exception
UseExit(exception) ==
    /\ frames # <<>>
    /\ ~frames[Len(frames)].client
    /\ LET frame == frames[Len(frames)]
       IN /\ contexts' = UseLeftContexts(frame)
          /\ _state' = UseLeftState(frame)
          /\ seen' = Seen("exit", frame.self, "none",
                          IF exception THEN "exception" ELSE "none", frame.prev_context)
    /\ frames' = SubSeq(frames, 1, Len(frames) - 1)
    /\ UNCHANGED NotContexts

\* get_context().cache[key] = value
CacheSet(key, value) ==
    /\ _state.context # 0
    /\ seen.sets < MaxSets
    /\ contexts' = [contexts EXCEPT ![_state.context].cache[key] = value]
    /\ seen' = Seen("set", 0, "none", "none", 0)
    /\ UNCHANGED <<_state, frames>>
    /\ UNCHANGED NotContexts

\* the key of an entity is changed while caches hold the entity under its
\* old key: the entity may be in the cache of several contexts
ChangeKey(key, holders) ==
    /\ holders # {}
    /\ seen.sets < MaxSets
    /\ \A c \in holders : contexts[c].cache[key] = "entity"
    /\ contexts' = [c \in 1..Len(contexts) |->
                       IF c \in holders THEN [contexts[c] EXCEPT !.cache[key] = "moved"]
                       ELSE contexts[c]]
    /\ seen' = Seen("change", 0, "none", "none", 0)
    /\ UNCHANGED <<_state, frames>>
    /\ UNCHANGED NotContexts

\* get_context().cache.get_and_validate(key)
GetAndValidateCall(key) ==
    /\ _state.context # 0
    /\ contexts' = [contexts EXCEPT ![_state.context].cache =
                       Del(contexts[_state.context].cache, key)]
    /\ seen' = [Seen("get_and_validate", _state.context, key,
                     GetAndValidate(contexts[_state.context], key), 0)
                  EXCEPT !.entry = contexts[_state.context].cache[key]]
    /\ UNCHANGED <<_state, frames>>
    /\ UNCHANGED NotContexts

\* with client.context(): the context is constructed and its scope entered
ClientContextEnter ==
    /\ Len(contexts) < MaxContexts
    /\ Len(frames) < MaxDepth
    /\ LET c == Len(contexts) + 1
       IN /\ contexts' = Append(contexts, Context(c))
          /\ frames' = Append(frames, [self |-> c, prev_context |-> _state.context,
                                       client |-> TRUE])
          /\ _state' = UseEntered(c)
          /\ seen' = Seen("client.context", c, "none", "none", _state.context)
    /\ UNCHANGED NotContexts

\* _eventloop.call_soon(finish_up): the callback is queued on the event loop
\* of the current context
CallSoon ==
    /\ _state.context # 0
    /\ LET loop == contexts[_state.context].eventloop
       IN /\ contexts[loop].queue < MaxQueued
          /\ contexts' = [contexts EXCEPT ![loop].queue = @ + 1]
    /\ seen' = Unseen
    /\ UNCHANGED <<_state, frames>>
    /\ UNCHANGED NotContexts

\* the body of with client.context() ends: the use() scope is left and, when
\* no exception passes through, the event loop of the context is run
ClientContextExit(exception) ==
    /\ frames # <<>>
    /\ frames[Len(frames)].client
    /\ LET frame == frames[Len(frames)]
           left == UseLeftContexts(frame)
           done == IF exception THEN <<>>
                   ELSE RunCallbacks(left[frame.self].queue, UseLeftState(frame))
       IN /\ contexts' = [left EXCEPT ![frame.self].queue = @ - Len(done)]
          /\ _state' = UseLeftState(frame)
          /\ seen' = [Seen("client.context exit", frame.self, "none",
                           IF exception THEN "exception" ELSE "none", frame.prev_context)
                        EXCEPT !.callbacks = done]
    /\ frames' = SubSeq(frames, 1, Len(frames) - 1)
    /\ UNCHANGED NotContexts

\* a thread that enters and leaves scopes and leaves callbacks to its event loops
NNext ==
    \/ Construct
    \/ \E c \in 1..Len(contexts) : New(c)
    \/ \E c \in 1..Len(contexts) : UseEnter(c)
    \/ \E exception \in BOOLEAN : UseExit(exception)
    \/ ClientContextEnter
    \/ CallSoon
    \/ \E exception \in BOOLEAN : ClientContextExit(exception)

SpecContext == NInit /\ [][NNext]_vars

\* the contexts that no scope entered and not yet left is the scope of
OutOfScope == {c \in 1..Len(contexts) : \A n \in 1..Len(frames) : frames[n].self # c}

\* a thread that enters and leaves scopes, none of a context that is in a
\* scope already, and works on the cache of the current context
ScopeNext ==
    \/ Construct
    \/ \E c \in 1..Len(contexts) : New(c)
    \/ \E c \in OutOfScope : UseEnter(c)
    \/ \E exception \in BOOLEAN : UseExit(exception)
    \/ \E key \in CacheKeys, value \in {"None", "entity"} : CacheSet(key, value)
    \/ \E key \in CacheKeys, holders \in SUBSET (1..Len(contexts)) : ChangeKey(key, holders)
    \/ \E key \in CacheKeys : GetAndValidateCall(key)

SpecContextCache == NInit /\ [][ScopeNext]_vars

\* C21: get_and_validate(key) returns the cached entity when the key of the
\* entity is key, returns None when the cache holds None for key, raises
\* KeyError when it holds nothing for key; when the key of the cached entity
\* has changed it raises KeyError and removes the entry, so that the lookup
\* that follows raises KeyError too and the entity is never returned
C21_GetAndValidate ==
    [][seen'.op = "get_and_validate" =>
          LET before == contexts[_state.context].cache[seen'.key]
              after == contexts'[_state.context]
          IN /\ before = "entity" => seen'.result = "entity"
             /\ before = "None" => seen'.result = "None"
             /\ before = "absent" => seen'.result = "KeyError"
             /\ before = "moved" =>
                   /\ seen'.result = "KeyError"
                   /\ after.cache[seen'.key] = "absent"
             /\ seen'.result = "KeyError" => GetAndValidate(after, seen'.key) = "KeyError"]_vars

\* the entity of a cache entry has changed its key and the key was looked up
C21_Witness ==
    /\ seen.op = "get_and_validate"
    /\ seen.entry = "moved"
    /\ seen.result = "KeyError"

\* C22: while scopes are entered, properly nested, get_context() gives the
\* context of the innermost scope not yet left and get_toplevel_context()
\* the context of the outermost one; when the outermost scope has been left,
\* at its end or by an exception, get_context() raises ContextError
C22_Nesting ==
    IF frames = <<>>
    THEN get_context = Raises(ContextError) /\ get_toplevel_context = Raises(ContextError)
    ELSE /\ get_context = Returns(frames[Len(frames)].self)
         /\ get_toplevel_context = Returns(frames[1].self)

\* an exception has ended the scope of a second context, entered within the
\* scope of a first one
C22_Witness ==
    /\ seen.op = "exit"
    /\ seen.result = "exception"
    /\ Len(frames) = 1
    /\ seen.context # frames[1].self

\* the outermost scope has been left after a scope nested in it
C22_WitnessOutermost ==
    /\ seen.op = "exit"
    /\ frames = <<>>
    /\ Len(contexts) > 1

\* C24: the callbacks queued on the event loop of the context when the body
\* of with client.context() ends are all run before the context stops being
\* the current one: each of them gets that context from get_context()
C24_CallbacksInContext ==
    (seen.op = "client.context exit" /\ seen.result = "none") =>
        /\ contexts[seen.context].queue = 0
        /\ \A n \in 1..Len(seen.callbacks) : seen.callbacks[n] = Returns(seen.context)

\* C25: client.context() entered while a context is current raises
\* RuntimeError and leaves the current context as it is
C25_DoubleJeopardy ==
    (seen.op = "client.context" /\ seen.prev # 0) =>
        /\ seen.result = RuntimeError
        /\ _state.context = seen.prev

MaxMade == 2
Makers == {1, 2}

\* uuid.getnode() and os.getpid() of the process
Node == "node"
Pid == "pid"

\* faulty variant: the counter gives the same number again
CounterStuck(counter) == counter

\* next(self.counter) of itertools.count: the counter after the call; the
\* call gives the number the counter stood at
CounterNext(counter) == counter + 1

\* self.prefix + str(sequence_number)
ContextId(sequence_number) ==
    [prefix |-> <<Node, Pid>>, sequence_number |-> sequence_number]

\* the id of a context constructed with an id passed in
ExplicitId == [prefix |-> <<"explicit">>, sequence_number |-> 0]

IInit ==
    /\ _context_ids = [counter |-> 1, lock |-> 0]
    /\ makers = [t \in Makers |-> [pc |-> "idle", sequence_number |-> 0, made |-> <<>>]]
    /\ QueryOff
    /\ CacheOff
    /\ LockOff
    /\ TaskletsOff
    /\ CountOff
    /\ CursorOff
    /\ FilterOff
    /\ ContextOff
    /\ RetryOff
    /\ ProjectionOff
    /\ DriversOff

NotIds == <<qvars, cvars, lvars, tvars, kvars, uvars, nvars, retry, merged, zvars>>

\* Context(client, id=id): no id is taken
ConstructWithId(t) ==
    /\ makers[t].pc = "idle"
    /\ Len(makers[t].made) < MaxMade
    /\ makers' = [makers EXCEPT ![t].made = Append(@, ExplicitId)]
    /\ UNCHANGED _context_ids
    /\ UNCHANGED NotIds

\* Context(client): next(_context_ids) is called
ConstructCall(t) ==
    /\ makers[t].pc = "idle"
    /\ Len(makers[t].made) < MaxMade
    /\ makers' = [makers EXCEPT ![t].pc = "acquire"]
    /\ UNCHANGED _context_ids
    /\ UNCHANGED NotIds

\* with self.lock: the thread waits until the lock is free
Acquire(t) ==
    /\ makers[t].pc = "acquire"
    /\ _context_ids.lock = 0
    /\ _context_ids' = [_context_ids EXCEPT !.lock = t]
    /\ makers' = [makers EXCEPT ![t].pc = "locked"]
    /\ UNCHANGED NotIds

\* sequence_number = next(self.counter)
TakeNumber(t) ==
    /\ makers[t].pc = "locked"
    /\ _context_ids' = [_context_ids EXCEPT !.counter = CounterNext(@)]
    /\ makers' = [makers EXCEPT ![t].pc = "release",
                                ![t].sequence_number = _context_ids.counter]
    /\ UNCHANGED NotIds

\* the lock is released, the id returned and the context made with it
ReleaseAndReturn(t) ==
    /\ makers[t].pc = "release"
    /\ _context_ids' = [_context_ids EXCEPT !.lock = 0]
    /\ makers' = [makers EXCEPT ![t].pc = "idle",
                                ![t].made = Append(@, ContextId(makers[t].sequence_number))]
    /\ UNCHANGED NotIds

INext ==
    \/ \E t \in Makers : ConstructWithId(t)
    \/ \E t \in Makers : ConstructCall(t)
    \/ \E t \in Makers : Acquire(t)
    \/ \E t \in Makers : TakeNumber(t)
    \/ \E t \in Makers : ReleaseAndReturn(t)

SpecIds == IInit /\ [][INext]_vars

\* the ids that _context_ids has issued to the contexts made so far
Issued ==
    {<<t, n>> \in Makers \X (1..MaxMade + 1) :
        n <= Len(makers[t].made) /\ makers[t].made[n] # ExplicitId}

\* C30: the ids issued in one process, to contexts constructed in any of its
\* threads, are pairwise distinct, and the sequence number goes up by
\* exactly 1 with every context constructed without an id passed in: the
\* numbers issued are 1, 2, ... without gap, and a context constructed with
\* an id takes none
C30_DistinctIds ==
    /\ \A a, b \in Issued : a # b => makers[a[1]].made[a[2]] # makers[b[1]].made[b[2]]
    /\ LET taken == {makers[a[1]].made[a[2]].sequence_number : a \in Issued}
                       \cup {makers[t].sequence_number : t \in {u \in Makers : makers[u].pc = "release"}}
       IN taken = 1..(_context_ids.counter - 1)
    /\ Cardinality(Issued) + Cardinality({t \in Makers : makers[t].pc = "release"})
          = _context_ids.counter - 1

\* a thread that has made a context with an id of its own waits for the lock
\* while the other, which has made a context with an id passed in, holds a
\* number just taken
C30_Witness ==
    \E t, u \in Makers :
       /\ makers[t].pc = "acquire"
       /\ makers[u].pc = "release"
       /\ \E n \in 1..Len(makers[t].made) : makers[t].made[n] # ExplicitId
       /\ \E n \in 1..Len(makers[u].made) : makers[u].made[n] = ExplicitId

(***************************************************************************)
(* retry_async.  The wrapped callback is called with what it does at each  *)
(* call chosen freely: it returns a value, raises an error, or returns a   *)
(* future that later gets a value or an error.  An error is one of         *)
(* google.api_core's transient errors, an error with a code() method and   *)
(* one of four gRPC codes, or an error without code().  The sleep times    *)
(* are the delays of exponential_sleep_generator before jitter.            *)
(***************************************************************************)
MaxRetries == 2

_DEFAULT_INITIAL_DELAY == 1
_DEFAULT_MAXIMUM_DELAY == 60
_DEFAULT_DELAY_MULTIPLIER == 2

Errors ==
    {"ServiceUnavailable", "UNAVAILABLE", "INTERNAL", "NOT_FOUND", "ABORTED", "ValueError"}
TRANSIENT_CODES == {"UNAVAILABLE", "INTERNAL"}

\* core_retry.if_transient_error
IfTransientError(error) == error = "ServiceUnavailable"

\* getattr(error, "code", None): None for an error that has no code()
ErrorCode(error) ==
    IF error \in {"UNAVAILABLE", "INTERNAL", "NOT_FOUND", "ABORTED"} THEN {error} ELSE None

\* is_transient_error
is_transient_error(error) ==
    IF IfTransientError(error) THEN TRUE
    ELSE IF ErrorCode(error) # None THEN ValueOf(ErrorCode(error)) \in TRANSIENT_CODES
    ELSE FALSE

\* the n-th delay of the sleep generator
RECURSIVE SleepTime(_)
SleepTime(n) ==
    IF n = 1 THEN _DEFAULT_INITIAL_DELAY
    ELSE IF SleepTime(n - 1) * _DEFAULT_DELAY_MULTIPLIER > _DEFAULT_MAXIMUM_DELAY
         THEN _DEFAULT_MAXIMUM_DELAY
         ELSE SleepTime(n - 1) * _DEFAULT_DELAY_MULTIPLIER

\* faulty variant: the loop ends after as many attempts as retries
SleepsUsedUpEarly(attempts, retries) == attempts >= retries

\* itertools.islice(sleep_generator, retries + 1) is used up
SleepsUsedUp(attempts, retries) == attempts >= retries + 1

\* the except clause, with the error of this attempt
Except(r, error) ==
    IF is_transient_error(error)
    THEN [r EXCEPT !.pc = "sleep", !.outcomes = Append(@, error), !.error = error]
    ELSE [r EXCEPT !.pc = "raised", !.outcomes = Append(@, error), !.error = error,
                   !.exception = error]

\* return result
ReturnResult(r) == [r EXCEPT !.pc = "returned", !.outcomes = Append(@, "result"),
                             !.result = "result"]

RInit ==
    /\ retry \in [pc : {"call"}, retries : 0..MaxRetries, calls : {0}, outcomes : {<<>>},
                  sleeps : {<<>>}, error : {"none"}, result : {"none"},
                  exception : {"none"}, cause : {"none"}]
    /\ QueryOff
    /\ CacheOff
    /\ LockOff
    /\ TaskletsOff
    /\ CountOff
    /\ CursorOff
    /\ FilterOff
    /\ ContextOff
    /\ IdsOff
    /\ ProjectionOff
    /\ DriversOff

NotRetry == <<qvars, cvars, lvars, tvars, kvars, uvars, nvars, ivars, merged, zvars>>

\* the head of the loop: the next attempt, or RetryError when the sleep
\* times are used up
LoopHead(r) ==
    IF SleepsUsedUp(r.calls, r.retries)
    THEN [r EXCEPT !.pc = "raised", !.exception = "RetryError", !.cause = r.error]
    ELSE [r EXCEPT !.pc = "try"]

\* retry_wrapper(*args) is called
RetryWrapperCall ==
    /\ retry.pc = "call"
    /\ retry' = LoopHead(retry)
    /\ UNCHANGED NotRetry

\* callback(*args) returns a value that is not a future
CallbackReturns ==
    /\ retry.pc = "try"
    /\ retry' = ReturnResult([retry EXCEPT !.calls = @ + 1])
    /\ UNCHANGED NotRetry

\* callback(*args) raises
CallbackRaises(error) ==
    /\ retry.pc = "try"
    /\ retry' = Except([retry EXCEPT !.calls = @ + 1], error)
    /\ UNCHANGED NotRetry

\* callback(*args) returns a future: the wrapper waits for it
CallbackReturnsFuture ==
    /\ retry.pc = "try"
    /\ retry' = [retry EXCEPT !.pc = "yield", !.calls = @ + 1]
    /\ UNCHANGED NotRetry

\* the future of the callback gets its result
FutureResult ==
    /\ retry.pc = "yield"
    /\ retry' = ReturnResult(retry)
    /\ UNCHANGED NotRetry

\* the future of the callback gets an exception
FutureException(error) ==
    /\ retry.pc = "yield"
    /\ retry' = Except(retry, error)
    /\ UNCHANGED NotRetry

\* yield tasklets.sleep(sleep_time) has ended
Slept ==
    /\ retry.pc = "sleep"
    /\ retry' = LoopHead([retry EXCEPT !.sleeps = Append(@, SleepTime(retry.calls))])
    /\ UNCHANGED NotRetry

RNext ==
    \/ RetryWrapperCall
    \/ CallbackReturns
    \/ \E error \in Errors : CallbackRaises(error)
    \/ CallbackReturnsFuture
    \/ FutureResult
    \/ \E error \in Errors : FutureException(error)
    \/ Slept

SpecRetry == RInit /\ [][RNext]_vars

\* the errors that may be retried: the transient errors of google.api_core
\* and the errors whose gRPC code is UNAVAILABLE or INTERNAL
Transient == {"ServiceUnavailable", "UNAVAILABLE", "INTERNAL"}

\* C26: the callback is called at most retries + 1 times; every attempt but
\* the last one made failed with a transient error and was followed by a
\* sleep, each sleep at least as long as the one before; an error that is
\* not transient is raised as it is, without sleep or further attempt; a
\* result is returned without further attempt; and RetryError is raised
\* exactly when retries + 1 attempts have failed with transient errors, its
\* cause the error of the last attempt
C26_Retry ==
    LET n == Len(retry.outcomes)
    IN retry.pc # "call" =>
          /\ retry.calls <= retry.retries + 1
          /\ n <= retry.calls
          /\ \A k \in 1..(n - 1) : retry.outcomes[k] \in Transient
          /\ \A k \in 1..Len(retry.sleeps) :
                /\ retry.outcomes[k] \in Transient
                /\ k > 1 => retry.sleeps[k] >= retry.sleeps[k - 1]
          /\ retry.pc = "try" => Len(retry.sleeps) = retry.calls /\ n = retry.calls
          /\ retry.pc = "returned" =>
                /\ retry.outcomes[n] = "result"
                /\ retry.result = "result"
                /\ Len(retry.sleeps) = n - 1
          /\ (retry.pc = "raised" /\ retry.exception # "RetryError") =>
                /\ retry.exception = retry.outcomes[n]
                /\ retry.exception \notin Transient
                /\ Len(retry.sleeps) = n - 1
          /\ (retry.pc = "raised" /\ retry.exception = "RetryError") =>
                /\ n = retry.retries + 1
                /\ retry.calls = retry.retries + 1
                /\ \A k \in 1..n : retry.outcomes[k] \in Transient
                /\ retry.cause = retry.outcomes[n]
          /\ (n = retry.retries + 1 /\ retry.outcomes[n] \in Transient /\ retry.pc # "sleep")
                => (retry.pc = "raised" /\ retry.exception = "RetryError")

\* every attempt allowed has failed with a transient error, the last with
\* another error than the first
C26_Witness ==
    /\ retry.pc = "raised"
    /\ retry.exception = "RetryError"
    /\ retry.retries > 0
    /\ retry.outcomes[1] # retry.cause

\* an error that is not transient has ended the call after a retry
C26_WitnessNotTransient ==
    /\ retry.pc = "raised"
    /\ retry.exception = "NOT_FOUND"
    /\ Len(retry.outcomes) = 2

(***************************************************************************)
(* The projection of a multi-query.  The query has a projection (a list of *)
(* property names, "__key__" among them for a keys-only query, or none)    *)
(* and an order (a list of property names, or none).  A sub-query with a   *)
(* projection returns, for an entity, its key and the properties of the    *)
(* projection; one without returns the entity with all its properties.     *)
(***************************************************************************)
MaxNames == 2

PropertyNames == {"a", "b"}
__key__ == "__key__"

\* the lists of at most MaxNames names, none of them twice
ListsOf(names) ==
    {l \in UNION {[1..n -> names] : n \in 0..MaxNames} :
        \A i, j \in 1..Len(l) : i # j => l[i] # l[j]}

Names(l) == {l[n] : n \in 1..Len(l)}

\* the loop of __init__: the names of the order that are not in the
\* projection, in the order of the order
RECURSIVE ExtraProjections(_, _)
ExtraProjections(order_by, projection) ==
    IF order_by = <<>> THEN <<>>
    ELSE IF Head(order_by) \notin Names(projection)
    THEN <<Head(order_by)>> \o ExtraProjections(Tail(order_by), projection)
    ELSE ExtraProjections(Tail(order_by), projection)

\* _MultiQueryIteratorImpl.__init__, lines 605-621: the projection of the
\* sub-queries, _extra_projections and _coerce_keys_only
MultiProjection(q) ==
    LET extra_projections ==
           IF q.order_by # <<>> /\ q.projection # <<>>
           THEN ExtraProjections(q.order_by, q.projection) ELSE <<>>
    IN IF extra_projections # <<>>
       THEN [projection |-> q.projection \o extra_projections,
             _extra_projections |-> extra_projections,
             _coerce_keys_only |-> q.projection = <<__key__>>]
       ELSE [projection |-> q.projection, _extra_projections |-> <<>>,
             _coerce_keys_only |-> FALSE]

\* the properties of a result of a sub-query with this projection
ResultProperties(projection) ==
    IF projection = <<>> THEN PropertyNames ELSE Names(projection) \ {__key__}

\* faulty variant: the properties added stay in the result
ElideNothing(properties, _extra_projections) == properties

\* next, lines 722-727: the properties added are deleted from the result
Elide(properties, _extra_projections) ==
    IF _extra_projections # <<>> THEN properties \ Names(_extra_projections) ELSE properties

\* next, lines 729-735: what is returned for the result
NextResult(it, properties) ==
    IF it.raw THEN [form |-> "_Result", properties |-> properties]
    ELSE IF it._coerce_keys_only THEN [form |-> "key", properties |-> {}]
    ELSE [form |-> "entity", properties |-> properties]

PInit ==
    /\ merged \in [pc : {"query"}, projection : ListsOf(PropertyNames \cup {__key__}),
                   order_by : ListsOf(PropertyNames), raw : BOOLEAN]
    /\ QueryOff
    /\ CacheOff
    /\ LockOff
    /\ TaskletsOff
    /\ CountOff
    /\ CursorOff
    /\ FilterOff
    /\ ContextOff
    /\ IdsOff
    /\ RetryOff
    /\ DriversOff

NotProjection == <<qvars, cvars, lvars, tvars, kvars, uvars, nvars, ivars, retry, zvars>>

\* _MultiQueryIteratorImpl(query, raw)
MultiQueryInit ==
    /\ merged.pc = "query"
    /\ LET p == MultiProjection(merged)
       IN merged' = [pc |-> "iterator", projection |-> merged.projection,
                     order_by |-> merged.order_by, raw |-> merged.raw,
                     queries |-> [i \in SubIds |-> p.projection],
                     _extra_projections |-> p._extra_projections,
                     _coerce_keys_only |-> p._coerce_keys_only,
                     _next_result |-> None, returned |-> None]
    /\ UNCHANGED NotProjection

\* has_next() finds the next result, which sub-query i has returned
MultiQueryHasNext(i) ==
    /\ merged.pc = "iterator"
    /\ merged' = [merged EXCEPT !.pc = "has_next",
                                !._next_result = {ResultProperties(merged.queries[i])}]
    /\ UNCHANGED NotProjection

\* next() returns the result found
MultiQueryNext ==
    /\ merged.pc = "has_next"
    /\ merged' = [merged EXCEPT
                    !.pc = "returned",
                    !._next_result = None,
                    !.returned = {NextResult(merged, Elide(ValueOf(merged._next_result),
                                                          merged._extra_projections))}]
    /\ UNCHANGED NotProjection

PNext ==
    \/ MultiQueryInit
    \/ \E i \in SubIds : MultiQueryHasNext(i)
    \/ MultiQueryNext

SpecProjection == PInit /\ [][PNext]_vars

\* the names of the order that the projection of the query does not have
Missing ==
    IF merged.order_by # <<>> /\ merged.projection # <<>>
    THEN Names(merged.order_by) \ Names(merged.projection) ELSE {}

\* C29: when the query has an order and a projection, the projection of
\* every sub-query is the projection of the query followed by the names of
\* the order it does not have; a result returned by next() has the
\* properties of the projection of the query and none of the names added;
\* and when the projection was ["__key__"] and names were added, next()
\* returns the key alone (for a raw iterator, the result with no property
\* left)
C29_ExtraProjections ==
    /\ merged.pc # "query" =>
          \A i \in SubIds :
             /\ Names(merged.queries[i]) = Names(merged.projection) \cup Missing
             /\ SubSeq(merged.queries[i], 1, Len(merged.projection)) = merged.projection
    /\ (merged.pc = "returned" /\ merged.projection # <<>>) =>
          LET returned == ValueOf(merged.returned)
          IN /\ returned.properties \cap Missing = {}
             /\ merged.projection # <<__key__>> =>
                   returned.properties = Names(merged.projection) \ {__key__}
             /\ (merged.projection = <<__key__>> /\ Missing # {}) =>
                   /\ returned.properties = {}
                   /\ ~merged.raw => returned.form = "key"

\* a keys-only query ordered by two properties has returned a key
C29_Witness ==
    /\ merged.pc = "returned"
    /\ merged.projection = <<__key__>>
    /\ Len(merged._extra_projections) = 2
    /\ ~merged.raw
    /\ ValueOf(merged.returned).form = "key"

\* a query that projects one of the two properties of its order has returned
\* an entity
C29_WitnessEntity ==
    /\ merged.pc = "returned"
    /\ merged.projection = <<"a">>
    /\ merged.order_by = <<"b", "a">>
    /\ ValueOf(merged.returned) = [form |-> "entity", properties |-> {"a"}]

(***************************************************************************)
(* A single-query iterator run to its end: the caller alternates           *)
(* has_next_async() and next().  `query` is the query, `counted.stored`    *)
(* the number of entities it matches, and the backend honours the offset   *)
(* and the limit each request carries on the wire.  `walk.sent` is the     *)
(* query the last answered request was made with and `walk.last` the       *)
(* batch that answered it.                                                 *)
(***************************************************************************)
\* the query _next_batch passes to _datastore_run_query
QueryOf(it) == [start_cursor |-> it.start_cursor, offset |-> it.qoffset, limit |-> it.qlimit]

NoBatch == [more |-> "none", skipped |-> 0, end_cursor |-> 0, received |-> 0, kept |-> 0]

WInit ==
    /\ query \in {[kind |-> "single", order |-> "none", offset |-> o, limit |-> l,
                    full |-> f, tombstones |-> {1}] :
                      o \in Offsets, l \in Limits, f \in BOOLEAN}
    /\ QStart
    /\ counted \in [filters : {None}, gcd_host : {"None"}, offset : {query.offset},
                    limit : {query.limit}, stored : 0..MaxStored, strategy : {"none"}]
    /\ brute = [pc |-> "start"]
    /\ skipping = [pc |-> "start"]
    /\ walk = [it |-> NewIterator(query.offset, query.limit), yielded |-> 0, rpcs |-> 0,
               sent |-> QueryOf(NewIterator(query.offset, query.limit)), last |-> NoBatch]
    /\ CacheOff
    /\ LockOff
    /\ TaskletsOff
    /\ CursorOff
    /\ FilterOff
    /\ ContextOff
    /\ IdsOff
    /\ RetryOff
    /\ ProjectionOff
    /\ OrchestrateOff
    /\ TransactionOff
    /\ MergeOff

NotWalk == <<qvars, cvars, lvars, tvars, kvars, uvars, nvars, ivars, retry, merged, ovars,
             txvars, merge>>

\* has_next_async() of the iterator, up to its first yield
WalkHasNext ==
    /\ walk.it.pc = "idle"
    /\ walk.it.ans = "none"
    /\ walk' = [walk EXCEPT !.it = HasNextAsync(walk.it)]
    /\ UNCHANGED NotWalk

\* the backend answers the request the iterator waits for
WalkResponse ==
    /\ walk.it.pc \in {"first", "loop"}
    /\ \E resp \in CountAnswers(IteratorRequest(walk.it), walk.rpcs) :
          LET it == OnResponse(walk.it, resp)
          IN walk' = [walk EXCEPT
                        !.it = it,
                        !.rpcs = @ + 1,
                        !.sent = QueryOf(walk.it),
                        !.last = [more |-> resp.more, skipped |-> resp.skipped,
                                  end_cursor |-> resp.end_cursor,
                                  received |-> Len(resp.results),
                                  kept |-> Len(NextBatch(walk.it, resp).batch)]]
    /\ UNCHANGED NotWalk

\* next() after has_next_async() gave True
WalkNext ==
    /\ walk.it.pc = "idle"
    /\ walk.it.ans = "true"
    /\ walk' = [walk EXCEPT !.it = IterNext(walk.it), !.yielded = @ + 1]
    /\ UNCHANGED NotWalk

WNext ==
    \/ WalkHasNext
    \/ WalkResponse
    \/ WalkNext

SpecWalk == WInit /\ [][WNext]_vars

\* C31: after a batch with more_results = NOT_FINISHED the query of the next
\* request has the batch's end cursor as start_cursor, the limit (when set)
\* of the answered request less the results the iterator kept of the batch,
\* and the offset (when non-zero) less the batch's skipped_results; after a
\* batch with any other more_results no request is outstanding.
C31_NextQuery ==
    walk.rpcs > 0 =>
      IF walk.last.more = NOT_FINISHED
      THEN QueryOf(walk.it) =
             [start_cursor |-> Some(walk.last.end_cursor),
              offset |-> IF walk.sent.offset # None /\ ValueOf(walk.sent.offset) # 0
                         THEN Some(ValueOf(walk.sent.offset) - walk.last.skipped)
                         ELSE walk.sent.offset,
              limit |-> IF walk.sent.limit # None
                        THEN Some(ValueOf(walk.sent.limit) - walk.last.kept)
                        ELSE None]
      ELSE walk.it.pc = "idle" /\ ~walk.it.has_next_batch

\* a second request is outstanding whose limit and offset were both reduced
C31_Witness ==
    /\ walk.rpcs = 1
    /\ walk.it.pc = "loop"
    /\ walk.last.more = NOT_FINISHED
    /\ walk.last.kept = 1
    /\ walk.last.skipped = 1
    /\ walk.sent.limit = Some(1)
    /\ walk.sent.offset = Some(1)
    /\ walk.it.qlimit = Some(0)
    /\ walk.it.qoffset = Some(0)

\* a result of the batch was a cached tombstone: the limit is not reduced
\* by it
C31_WitnessTombstone ==
    /\ walk.rpcs = 1
    /\ walk.last.more = NOT_FINISHED
    /\ walk.last.received = 1
    /\ walk.last.kept = 0
    /\ walk.sent.limit = Some(1)
    /\ walk.it.qlimit = Some(1)

\* a batch that was not NOT_FINISHED has been consumed and the iterator is
\* exhausted without another request
C31_WitnessEnd ==
    /\ walk.rpcs = 1
    /\ walk.last.more = MORE_RESULTS_AFTER_LIMIT
    /\ walk.yielded = 1
    /\ walk.it.ans = "false"

\* C35: with a limit L >= 1, against a backend that returns at most the
\* limit a request carries on the wire (and any batch when it carries
\* none), the iterator yields at most L results over all its batches.
C35_LimitHolds ==
    (query.limit # None /\ ValueOf(query.limit) >= 1) => walk.yielded <= ValueOf(query.limit)

(***************************************************************************)
(* tests/unit/orchestrate.py.  Two test functions; test t calls            *)
(* syncpoint() `syncpoints` times, and either never fails, always fails    *)
(* at its end, or fails at its end when the other test took a turn while   *)
(* it stood by.  `main` is the main thread inside orchestrate(),           *)
(* test_threads[t] the _TestThread of test t with the two queues of its    *)
(* conductor, test_calls the tests in the order their turns ran, and       *)
(* main.runs the sequences executed so far.                                *)
(***************************************************************************)
MaxSyncpoints == 1

Tests == {1, 2}

FailureModes == {"never", "always", "interleaved"}

\* _TestThread(test)
NewTestThread(th) ==
    [pc |-> "none", finished |-> FALSE, error |-> FALSE, _notify |-> 0, _go |-> 0,
     turns |-> 0, disturbed |-> FALSE, syncpoints |-> th.syncpoints, fails |-> th.fails]

Largest(S) == CHOOSE n \in S : \A k \in S : k <= n

\* _permutations.__iter__, step 1: the indexes i with a[i] < a[i + 1]
Ascents(a) == {i \in 1..(Len(a) - 1) : a[i] < a[i + 1]}

\* faulty variant: the tail is not reversed after the swap
NextPermutationNoReverse(a) ==
    LET i == Largest(Ascents(a))
        j == Largest({k \in (i + 1)..Len(a) : a[i] < a[k]})
    IN [a EXCEPT ![i] = a[j], ![j] = a[i]]

\* _permutations.__iter__, steps 1 to 4: the permutation after `a`
NextPermutation(a) ==
    LET i == Largest(Ascents(a))
        j == Largest({k \in (i + 1)..Len(a) : a[i] < a[k]})
        swapped == [a EXCEPT ![i] = a[j], ![j] = a[i]]
    IN [k \in 1..Len(a) |-> IF k <= i THEN swapped[k] ELSE swapped[Len(a) + i + 1 - k]]

\* the threads that have not finished
Unfinished(th) == {t \in Tests : ~th[t].finished}

First(S) == CHOOSE n \in S : \A k \in S : n <= k

\* `for test_sequence in sequences:` takes the next permutation and makes
\* new threads, or the loop ends and orchestrate returns the counts
NextSequence(m, th) ==
    IF Ascents(m.current) = {}
    THEN [main |-> [m EXCEPT !.pc = "returned", !.phase = "done"], threads |-> th]
    ELSE LET test_sequence == NextPermutation(m.current)
         IN [main |-> [m EXCEPT !.pc = "go", !.phase = "sequence", !.current = test_sequence,
                                !.pos = 1, !.index = test_sequence[1],
                                !.runs = Append(@, test_sequence)],
             threads |-> [t \in Tests |-> NewTestThread(th[t])]]

\* lines 173-175: every thread is run to its end, then the next sequence
Drain(m, th) ==
    IF Unfinished(th) = {} THEN NextSequence(m, th)
    ELSE [main |-> [m EXCEPT !.pc = "go", !.phase = "drain", !.index = First(Unfinished(th))],
          threads |-> th]

\* lines 180-182: after an exception every thread is finished, errors
\* ignored, and the exception is raised again
FinishAll(m, th) ==
    IF Unfinished(th) = {}
    THEN [main |-> [m EXCEPT !.pc = "raised", !.phase = "done"], threads |-> th]
    ELSE [main |-> [m EXCEPT !.pc = "go", !.phase = "finish", !.index = First(Unfinished(th))],
          threads |-> th]

\* [index] * count
Repeat(index, count) == [n \in 1..count |-> index]

\* thread.go() has returned to orchestrate
AfterGo(m, th) ==
    IF m.phase = "count"
    THEN LET count == m.count + 1
         IN IF ~th[m.index].finished
            THEN [main |-> [m EXCEPT !.pc = "go", !.count = count], threads |-> th]
            ELSE LET appended == [m EXCEPT !.counts = Append(@, count),
                                          !.test_sequence = @ \o Repeat(m.index, count),
                                          !.count = 0]
                 IN IF m.index + 1 \in Tests
                    THEN [main |-> [appended EXCEPT !.pc = "go", !.index = m.index + 1],
                          threads |-> th]
                    ELSE NextSequence([appended EXCEPT
                                         !.current = appended.test_sequence,
                                         !.runs = <<appended.test_sequence>>], th)
    ELSE IF m.phase = "sequence"
    THEN IF m.pos + 1 <= Len(m.current)
         THEN [main |-> [m EXCEPT !.pc = "go", !.pos = @ + 1, !.index = m.current[m.pos + 1]],
               threads |-> th]
         ELSE Drain(m, th)
    ELSE IF m.phase = "drain" THEN Drain(m, th)
    ELSE FinishAll(m, th)

\* thread.go() has raised the error of the thread
GoRaised(m, th) ==
    IF m.phase = "count"
    THEN [main |-> [m EXCEPT !.pc = "raised", !.phase = "done"], threads |-> th]
    ELSE FinishAll(m, th)

OInit ==
    /\ main = [pc |-> "go", phase |-> "count", index |-> 1, count |-> 0, counts |-> <<>>,
               test_sequence |-> <<>>, current |-> <<>>, pos |-> 0, runs |-> <<>>]
    /\ test_threads \in [Tests -> {NewTestThread([syncpoints |-> n, fails |-> f]) :
                                     n \in 0..MaxSyncpoints, f \in FailureModes}]
    /\ test_calls = <<>>
    /\ QueryOff
    /\ CacheOff
    /\ LockOff
    /\ TaskletsOff
    /\ CountOff
    /\ CursorOff
    /\ FilterOff
    /\ ContextOff
    /\ IdsOff
    /\ RetryOff
    /\ ProjectionOff
    /\ WalkOff
    /\ TransactionOff
    /\ MergeOff

NotOrchestrate == <<qvars, cvars, lvars, tvars, kvars, uvars, nvars, ivars, retry, merged, walk,
                    txvars, merge>>

\* _TestThread.go up to conductor.wait()
Go ==
    /\ main.pc = "go"
    /\ LET t == main.index
       IN IF test_threads[t].finished
          THEN LET after == AfterGo(main, test_threads)
               IN main' = after.main /\ test_threads' = after.threads
          ELSE IF test_threads[t].pc = "none"
          THEN /\ test_threads' = [test_threads EXCEPT ![t].pc = "run"]
               /\ main' = [main EXCEPT !.pc = "wait"]
          ELSE /\ test_threads[t]._go = 0
               /\ test_threads' = [test_threads EXCEPT ![t]._go = 1]
               /\ main' = [main EXCEPT !.pc = "wait"]
    /\ UNCHANGED test_calls
    /\ UNCHANGED NotOrchestrate

\* _TestThread.go from conductor.wait() on
Wait ==
    /\ main.pc = "wait"
    /\ test_threads[main.index]._notify = 1
    /\ LET th == [test_threads EXCEPT ![main.index]._notify = 0]
           after == IF th[main.index].error THEN GoRaised(main, th) ELSE AfterGo(main, th)
       IN main' = after.main /\ test_threads' = after.threads
    /\ UNCHANGED test_calls
    /\ UNCHANGED NotOrchestrate

\* the test function runs up to its next syncpoint or to its end
TestRuns(t) ==
    /\ test_threads[t].pc = "run"
    /\ test_calls' = Append(test_calls, t)
    /\ test_threads' =
         [u \in Tests |->
            IF u = t
            THEN [test_threads[t] EXCEPT
                    !.turns = @ + 1,
                    !.pc = IF test_threads[t].turns < test_threads[t].syncpoints
                           THEN "syncpoint" ELSE "end"]
            ELSE IF test_threads[u].pc = "standby"
            THEN [test_threads[u] EXCEPT !.disturbed = TRUE]
            ELSE test_threads[u]]
    /\ UNCHANGED main
    /\ UNCHANGED NotOrchestrate

\* syncpoint(): conductor.notify()
Notify(t) ==
    /\ test_threads[t].pc = "syncpoint"
    /\ test_threads[t]._notify = 0
    /\ test_threads' = [test_threads EXCEPT ![t]._notify = 1, ![t].pc = "standby"]
    /\ UNCHANGED <<main, test_calls>>
    /\ UNCHANGED NotOrchestrate

\* syncpoint(): conductor.standby() returns
Standby(t) ==
    /\ test_threads[t].pc = "standby"
    /\ test_threads[t]._go = 1
    /\ test_threads' = [test_threads EXCEPT ![t]._go = 0, ![t].pc = "run"]
    /\ UNCHANGED <<main, test_calls>>
    /\ UNCHANGED NotOrchestrate

\* _TestThread._run: the test has returned or raised
TestEnds(t) ==
    /\ test_threads[t].pc = "end"
    /\ test_threads[t]._notify = 0
    /\ test_threads' =
         [test_threads EXCEPT
            ![t].error = \/ test_threads[t].fails = "always"
                         \/ test_threads[t].fails = "interleaved" /\ test_threads[t].disturbed,
            ![t].finished = TRUE,
            ![t]._notify = 1,
            ![t].pc = "done"]
    /\ UNCHANGED <<main, test_calls>>
    /\ UNCHANGED NotOrchestrate

ONext ==
    \/ Go
    \/ Wait
    \/ \E t \in Tests : TestRuns(t)
    \/ \E t \in Tests : Notify(t)
    \/ \E t \in Tests : Standby(t)
    \/ \E t \in Tests : TestEnds(t)

SpecOrchestrate == OInit /\ [][ONext]_vars

\* the main thread can take a step: it is not blocked in conductor.wait()
\* and orchestrate has not ended
MainProgresses ==
    \/ main.pc = "go"
    \/ main.pc = "wait" /\ test_threads[main.index]._notify = 1

\* test thread t can take a step: it has been started, has not ended and
\* is not blocked in conductor.standby()
TestProgresses(t) ==
    \/ test_threads[t].pc \in {"run", "syncpoint", "end"}
    \/ test_threads[t].pc = "standby" /\ test_threads[t]._go = 1

\* the threads that can take a step, 0 being the main thread
Progressing ==
    {t \in Tests : TestProgresses(t)} \cup (IF MainProgresses THEN {0} ELSE {})

OneAtATime == Cardinality(Progressing) <= 1

\* control goes from the main thread to the thread it calls go() on, and
\* back from a test thread at a syncpoint or at the end of its test
HandOver ==
    Progressing' # Progressing =>
       \/ /\ Progressing = {0}
          /\ main.pc = "go"
          /\ Progressing' = {main.index}
       \/ /\ Progressing = {0}
          /\ Progressing' = {}
          /\ main'.pc \in {"returned", "raised"}
       \/ \E t \in Tests :
             /\ Progressing = {t}
             /\ Progressing' = {0}
             /\ main.pc = "wait" /\ main.index = t
             /\ \/ test_threads[t].pc = "syncpoint" /\ test_threads'[t].pc = "standby"
                \/ test_threads[t].pc = "end" /\ test_threads'[t].finished

\* a is before b in lexicographic order
LexLess(a, b) ==
    \E k \in 1..Len(a) : a[k] < b[k] /\ \A n \in 1..(k - 1) : a[n] = b[n]

\* the sequences with as many turns of each test as `a`
Arrangements(a) ==
    {b \in [1..Len(a) -> Tests] : \A t \in Tests : Count(t, b) = Count(t, a)}

RECURSIVE Flatten(_)
Flatten(ss) == IF ss = <<>> THEN <<>> ELSE Head(ss) \o Flatten(Tail(ss))

\* the sequences run so far are arrangements of the turns of the serial
\* run, each after the one before it in lexicographic order; when
\* orchestrate returns they are all the arrangements, the first being the
\* serial run, and the tests took their turns as the sequences say
RunsInOrder ==
    /\ \A n \in 1..Len(main.runs) : main.runs[n] \in Arrangements(main.runs[1])
    /\ \A n \in 1..(Len(main.runs) - 1) : LexLess(main.runs[n], main.runs[n + 1])
    /\ main.pc = "returned" =>
          /\ Len(main.counts) = Cardinality(Tests)
          /\ main.runs[1] = Repeat(1, main.counts[1]) \o Repeat(2, main.counts[2])
          /\ \A t \in Tests : main.counts[t] = test_threads[t].syncpoints + 1
          /\ Range(main.runs) = Arrangements(main.runs[1])
          /\ test_calls = Flatten(main.runs)

\* C34: under orchestrate at most one thread, the main thread or one test
\* thread, can take a step at any moment; control changes hands only when
\* the main thread calls go(), at a syncpoint, or when a test ends; and
\* when orchestrate returns, every distinct permutation of the turn
\* sequence has been run exactly once, the serial run first and the others
\* in lexicographic order.
C34_Orchestrate == [][OneAtATime /\ OneAtATime' /\ HandOver /\ RunsInOrder']_vars

\* two tests of two turns each: orchestrate has returned after six runs
C34_Witness ==
    /\ main.pc = "returned"
    /\ main.counts = <<2, 2>>
    /\ Len(main.runs) = 6
    /\ Len(test_calls) = 24

\* a test failed in an interleaved run: the other thread was finished and
\* the error raised
C34_WitnessRaised ==
    /\ main.pc = "raised"
    /\ Len(main.runs) = 2
    /\ \A t \in Tests : test_threads[t].finished

(***************************************************************************)
(* transaction_async.  txn.context is _state.context, an index into        *)
(* txn.contexts, the contexts made so far with their transaction (0 for    *)
(* none); context 1 is the context the thread starts in.  transactions[t]  *)
(* is call t of transaction_async: where its tasklet stands, the context   *)
(* get_context() gave it, the context it made and the one use() will       *)
(* restore, the calls it made to _datastore_api, the current context at    *)
(* each run of its callback, and how the callback, the commit and the      *)
(* call itself ended.  A tasklet runs from one yield to the next in one    *)
(* step, resumed by the event loop in the thread's current context.        *)
(***************************************************************************)
Callers == {1, 2}

NoTransaction == 0

\* the id begin_transaction gives call t
TransactionId(t) == 10 + t

NewCall ==
    [pc |-> "idle", context |-> 0, tx_context |-> 0, prev_context |-> 0, api |-> <<>>,
     ran_in |-> <<>>, callback |-> "none", commit |-> "none", rollback |-> "none",
     result |-> "none"]

\* _Context.use, the finally clause: `_state.context = prev_context`
Leave(x, call) == [x EXCEPT !.context = call.prev_context]

\* _Context.use up to its yield, on context.new(transaction=transaction_id)
UseNewContext(x, transaction_id) ==
    [x EXCEPT !.contexts = Append(@, [transaction |-> transaction_id]),
              !.context = Len(x.contexts) + 1]

\* faulty variant: the error is handled without a rollback
RollbackSkipped(call) == [call EXCEPT !.pc = "rollback"]

\* the except clause: `yield _datastore_api.rollback(transaction_id)`
Rollback(call) == [call EXCEPT !.pc = "rollback", !.api = Append(@, "rollback")]

\* `yield _datastore_api.commit(transaction_id)`
Commit(call) == [call EXCEPT !.pc = "commit", !.api = Append(@, "commit")]

XInit ==
    /\ txn = [context |-> 1, contexts |-> <<[transaction |-> NoTransaction]>>]
    /\ transactions = [t \in Callers |-> NewCall]
    /\ QueryOff
    /\ CacheOff
    /\ LockOff
    /\ TaskletsOff
    /\ CountOff
    /\ CursorOff
    /\ FilterOff
    /\ ContextOff
    /\ IdsOff
    /\ RetryOff
    /\ ProjectionOff
    /\ WalkOff
    /\ OrchestrateOff
    /\ MergeOff

NotTransaction == <<qvars, cvars, lvars, tvars, kvars, uvars, nvars, ivars, retry, merged, walk,
                    ovars, merge>>

\* transaction_async(callback, retries) up to its first yield
TransactionAsync(t, retries) ==
    /\ transactions[t].pc = "idle"
    /\ IF retries # 0
       THEN transactions' = [transactions EXCEPT ![t].pc = "raised",
                                                 ![t].result = "NotImplementedError"]
       ELSE IF txn.contexts[txn.context].transaction # NoTransaction
       THEN transactions' = [transactions EXCEPT ![t].pc = "raised",
                                                 ![t].context = txn.context,
                                                 ![t].result = "NotImplementedError"]
       ELSE transactions' = [transactions EXCEPT ![t].pc = "begin",
                                                 ![t].context = txn.context,
                                                 ![t].api = <<"begin_transaction">>]
    /\ UNCHANGED txn
    /\ UNCHANGED NotTransaction

\* begin_transaction fails
BeginFails(t) ==
    /\ transactions[t].pc = "begin"
    /\ transactions' = [transactions EXCEPT ![t].pc = "raised", ![t].result = "BeginError"]
    /\ UNCHANGED txn
    /\ UNCHANGED NotTransaction

\* begin_transaction gives the id: the new context is used and the
\* callback is called; it returns, raises, or returns a future
Begun(t, outcome) ==
    /\ transactions[t].pc = "begin"
    /\ txn' = UseNewContext(txn, TransactionId(t))
    /\ LET call == [transactions[t] EXCEPT !.prev_context = txn.context,
                                           !.tx_context = txn'.context,
                                           !.ran_in = Append(@, txn'.context)]
       IN transactions' =
            [transactions EXCEPT ![t] =
               IF outcome = "returns" THEN Commit([call EXCEPT !.callback = "returned"])
               ELSE IF outcome = "raises" THEN Rollback([call EXCEPT !.callback = "CallbackError"])
               ELSE [call EXCEPT !.pc = "callback"]]
    /\ UNCHANGED NotTransaction

\* the tasklet behind the future of the callback runs on, in the current
\* context, and ends; transaction_async is resumed with its outcome
CallbackDone(t, outcome) ==
    /\ transactions[t].pc = "callback"
    /\ LET call == [transactions[t] EXCEPT !.ran_in = Append(@, txn.context)]
       IN transactions' =
            [transactions EXCEPT ![t] =
               IF outcome = "returns" THEN Commit([call EXCEPT !.callback = "returned"])
               ELSE Rollback([call EXCEPT !.callback = "CallbackError"])]
    /\ UNCHANGED txn
    /\ UNCHANGED NotTransaction

\* commit has succeeded: the with block is left and the result returned
Committed(t) ==
    /\ transactions[t].pc = "commit"
    /\ transactions' = [transactions EXCEPT ![t].pc = "returned", ![t].commit = "returned",
                                             ![t].result = "result"]
    /\ txn' = Leave(txn, transactions[t])
    /\ UNCHANGED NotTransaction

\* commit has failed
CommitFails(t) ==
    /\ transactions[t].pc = "commit"
    /\ transactions' = [transactions EXCEPT
                          ![t] = Rollback([transactions[t] EXCEPT !.commit = "CommitError"])]
    /\ UNCHANGED txn
    /\ UNCHANGED NotTransaction

\* rollback has succeeded: `raise` raises the error again, out of the
\* with block
RolledBack(t) ==
    /\ transactions[t].pc = "rollback"
    /\ transactions' = [transactions EXCEPT
                          ![t].pc = "raised",
                          ![t].rollback = "returned",
                          ![t].result = IF transactions[t].callback = "CallbackError"
                                        THEN "CallbackError" ELSE "CommitError"]
    /\ txn' = Leave(txn, transactions[t])
    /\ UNCHANGED NotTransaction

\* rollback has failed: its error leaves the except clause and the with
\* block
RollbackFails(t) ==
    /\ transactions[t].pc = "rollback"
    /\ transactions' = [transactions EXCEPT ![t].pc = "raised",
                                             ![t].rollback = "RollbackError",
                                             ![t].result = "RollbackError"]
    /\ txn' = Leave(txn, transactions[t])
    /\ UNCHANGED NotTransaction

XNext ==
    \/ \E t \in Callers, retries \in {0, 1} : TransactionAsync(t, retries)
    \/ \E t \in Callers : BeginFails(t)
    \/ \E t \in Callers, outcome \in {"returns", "raises", "future"} : Begun(t, outcome)
    \/ \E t \in Callers, outcome \in {"returns", "raises"} : CallbackDone(t, outcome)
    \/ \E t \in Callers : Committed(t)
    \/ \E t \in Callers : CommitFails(t)
    \/ \E t \in Callers : RolledBack(t)
    \/ \E t \in Callers : RollbackFails(t)

SpecTransaction == XInit /\ [][XNext]_vars

Completed(t) == transactions[t].pc \in {"returned", "raised"}

C39_CommitOrRollback ==
    \A t \in Callers :
       LET call == transactions[t]
           failed == call.callback = "CallbackError" \/ call.commit = "CommitError"
       IN /\ Count("commit", call.api) <= 1 /\ Count("rollback", call.api) <= 1
          /\ Count("commit", call.api) = 1 => call.callback = "returned"
          /\ Count("rollback", call.api) = 1 <=> failed
          /\ (call.pc = "raised" /\ failed) =>
                call.result = (IF call.callback = "CallbackError" THEN "CallbackError"
                               ELSE "CommitError")
          /\ call.result = "NotImplementedError" => call.pc = "raised" /\ call.api = <<>>

\* C39, amended: as C39, but the call ends with the error of the callback
\* or the commit when rollback succeeded, and with the error of rollback
\* when rollback itself failed.
C39_RollbackMayFail ==
    \A t \in Callers :
       LET call == transactions[t]
           failed == call.callback = "CallbackError" \/ call.commit = "CommitError"
       IN /\ Count("commit", call.api) <= 1 /\ Count("rollback", call.api) <= 1
          /\ Count("commit", call.api) = 1 => call.callback = "returned"
          /\ Count("rollback", call.api) = 1 <=> failed
          /\ (call.pc = "raised" /\ failed) =>
                call.result = (IF call.rollback = "RollbackError" THEN "RollbackError"
                               ELSE IF call.callback = "CallbackError" THEN "CallbackError"
                               ELSE "CommitError")
          /\ call.result = "NotImplementedError" => call.pc = "raised" /\ call.api = <<>>
          /\ call.pc = "returned" => call.commit = "returned" /\ call.rollback = "none"

\* the commit of one call failed, it was rolled back and ended with the
\* error of the commit; the other call was made inside the transaction of
\* the first and ended with NotImplementedError
C39_Witness ==
    /\ transactions[1].api = <<"begin_transaction", "commit", "rollback">>
    /\ transactions[1].pc = "raised" /\ transactions[1].result = "CommitError"
    /\ transactions[2].result = "NotImplementedError"
    /\ transactions[2].context = transactions[1].tx_context

\* the callback raised and the rollback failed
C39_WitnessRollbackFails ==
    /\ transactions[1].api = <<"begin_transaction", "rollback">>
    /\ transactions[1].pc = "raised" /\ transactions[1].result = "RollbackError"

(***************************************************************************)
(* The sub-iterators of a multi-query.  merge.nodes are the filters of the *)
(* disjuncts (query.filters._nodes), merge.result_sets the iterators       *)
(* iterate() makes for them, each with its class, the answer of its        *)
(* has_next_async() and the result it holds when the answer is True.       *)
(***************************************************************************)
Disjuncts == {1, 2}

\* iterate: the class of the iterator made for a query with these filters
Iterate(filters) ==
    IF filters # None /\ ValueOf(filters)._multiquery THEN "_MultiQueryIteratorImpl"
    ELSE IF filters # None /\ ValueOf(filters)._post_filters
    THEN "_PostFilterQueryIteratorImpl"
    ELSE "_QueryIteratorImpl"

\* the classes that define _peek
HasPeek(class) == class = "_QueryIteratorImpl"

\* lines 670-676: peek every head and keep the index of the least, or the
\* AttributeError of the first iterator without _peek
RECURSIVE PeekScan(_, _, _, _)
PeekScan(result_sets, i, min_index, min_value) ==
    IF i > Len(result_sets) THEN [raised |-> "none", index |-> min_index]
    ELSE IF ~HasPeek(result_sets[i].class) THEN [raised |-> "AttributeError", index |-> 0]
    ELSE IF Less("asc", result_sets[i].head, min_value)
    THEN PeekScan(result_sets, i + 1, i, result_sets[i].head)
    ELSE PeekScan(result_sets, i + 1, min_index, min_value)

\* lines 668-683: the iterator whose next() is taken
Selection(sortable, result_sets) ==
    IF sortable
    THEN IF ~HasPeek(result_sets[1].class) THEN [raised |-> "AttributeError", index |-> 0]
         ELSE PeekScan(result_sets, 2, 1, result_sets[1].head)
    ELSE [raised |-> "none", index |-> 1]

MInit ==
    /\ merge \in [pc : {"query"}, sortable : BOOLEAN, nodes : [Disjuncts -> Filters],
                   result_sets : {<<>>}, raised : {"none"}, next_result : {None}]
    /\ QueryOff
    /\ CacheOff
    /\ LockOff
    /\ TaskletsOff
    /\ CountOff
    /\ CursorOff
    /\ FilterOff
    /\ ContextOff
    /\ IdsOff
    /\ RetryOff
    /\ ProjectionOff
    /\ WalkOff
    /\ OrchestrateOff
    /\ TransactionOff

NotMerge == <<qvars, cvars, lvars, tvars, kvars, uvars, nvars, ivars, retry, merged, walk,
              ovars, txvars>>

\* _MultiQueryIteratorImpl.__init__: one iterator for each disjunct
MergeIterate ==
    /\ merge.pc = "query"
    /\ merge' = [merge EXCEPT
                   !.pc = "poll",
                   !.result_sets = [i \in 1..Cardinality(Disjuncts) |->
                                      [class |-> Iterate(merge.nodes[i]), head |-> 0]]]
    /\ UNCHANGED NotMerge

\* the iterators answer has_next_async(): those that answer True hold a
\* result, the others are dropped
MergePoll ==
    /\ merge.pc = "poll"
    /\ \E heads \in [1..Len(merge.result_sets) -> {0} \cup Entities] :
          LET polled == [i \in 1..Len(merge.result_sets) |->
                           [merge.result_sets[i] EXCEPT !.head = heads[i]]]
              IsTrue(rs) == rs.head # 0
          IN merge' = [merge EXCEPT !.pc = "select",
                                    !.result_sets = SelectSeq(polled, IsTrue)]
    /\ UNCHANGED NotMerge

\* has_next_async from the answers on
MergeSelect ==
    /\ merge.pc = "select"
    /\ IF merge.result_sets = <<>>
       THEN merge' = [merge EXCEPT !.pc = "false"]
       ELSE LET selection == Selection(merge.sortable, merge.result_sets)
            IN IF selection.raised # "none"
               THEN merge' = [merge EXCEPT !.pc = "raised", !.raised = selection.raised]
               ELSE merge' = [merge EXCEPT
                                !.pc = "true",
                                !.next_result = Some(merge.result_sets[selection.index].head)]
    /\ UNCHANGED NotMerge

MNext ==
    \/ MergeIterate
    \/ MergePoll
    \/ MergeSelect

SpecMerge == MInit /\ [][MNext]_vars

\* C37: in an ordered multi-query the head of every sub-iterator that
\* answered True can be peeked, whatever iterator iterate() made for its
\* disjunct: the selection of the minimum does not fail.
C37_HeadsCanBePeeked == merge.sortable => merge.raised = "none"

====
